---- MODULE Spec2Model ----
(***************************************************************************)
(* Batch video transcription (src/batch_transcribe.py): the chunked        *)
(* transcription engine transcribe_chunks with its checkpoint file, driven *)
(* by process_video and by the batch loop of main.                         *)
(*                                                                         *)
(* File names and paths are sequences of one-character strings,            *)
(* transcribed texts are strings.  The knowledge-note batch of             *)
(* src/agents.py is modelled next to it as a program of its own.           *)
(***************************************************************************)
EXTENDS Integers, Sequences, FiniteSets, TLC

\* ------------------------------------------------------------------ bounds

\* Largest number of chunks of one audio file under Spec.
MaxChunks == 3

\* Largest number of chunks of one audio file under SpecLong.
MaxLongChunks == 11

\* Largest number of transcript files batch_process_transcripts finds.
MaxNotes == 3

\* Largest number of parts in a call of secure_path_join under SpecJoin.
MaxParts == 2

\* Longest of the short file names tried under SpecSanitize.
MaxNameLen == 3

\* Longest audio, in ms, cut under SpecChunkAudio.
MaxDuration == 12

\* Largest size of the audio file under SpecChunkAudio, in the unit of
\* max_size_mb.
MaxFileSize == 6

\* ------------------------------------------------------- program constants

\* transcribe_chunks: "Save progress every N chunks".
save_frequency == 10

\* sanitize_filename: "Limit length".
name_limit == 100

\* ------------------------------------------------------ characters, names

LowerLetters ==
    <<"a","b","c","d","e","f","g","h","i","j","k","l","m",
      "n","o","p","q","r","s","t","u","v","w","x","y","z">>

UpperLetters ==
    <<"A","B","C","D","E","F","G","H","I","J","K","L","M",
      "N","O","P","Q","R","S","T","U","V","W","X","Y","Z">>

Digits == {"0","1","2","3","4","5","6","7","8","9"}

\* The characters the pattern [a-z0-9_-] of sanitize_filename accepts.
SafeChars == {LowerLetters[k] : k \in 1..26} \cup Digits \cup {"_", "-"}

\* str.lower() on one character.
LowerChar(c) ==
    IF \E k \in 1..26 : UpperLetters[k] = c
    THEN LowerLetters[CHOOSE k \in 1..26 : UpperLetters[k] = c]
    ELSE c

\* `sub in s` for strings given as character sequences.
Contains(s, sub) ==
    \E k \in 0..(Len(s) - Len(sub)) : SubSeq(s, k + 1, k + Len(sub)) = sub

\* Index of the last "." of s, 0 when there is none (str.rfind('.') + 1).
LastDot(s) ==
    IF \E k \in 1..Len(s) : s[k] = "."
    THEN CHOOSE k \in 1..Len(s) : s[k] = "." /\ \A j \in (k+1)..Len(s) : s[j] # "."
    ELSE 0

\* os.path.splitext(name)[0] for a name without directory separator: the
\* extension starts at the last dot unless only dots precede it.
SplitextRoot(s) ==
    LET d == LastDot(s) IN
    IF d > 0 /\ \E j \in 1..(d-1) : s[j] # "." THEN SubSeq(s, 1, d - 1) ELSE s

\* pathlib's Path(name).stem: the name without its last suffix; a leading or
\* a trailing dot starts no suffix.
Stem(s) ==
    LET d == LastDot(s) IN
    IF d > 1 /\ d < Len(s) THEN SubSeq(s, 1, d - 1) ELSE s

\* The positions of s that re.sub(r'-+', '-', s) keeps: every character
\* but a hyphen that follows a hyphen.
KeptByCollapse(s) == {k \in 1..Len(s) : ~(s[k] = "-" /\ k > 1 /\ s[k - 1] = "-")}

\* re.sub(r'-+', '-', s)
CollapseHyphens(s) ==
    [j \in 1..Cardinality(KeptByCollapse(s)) |->
        s[CHOOSE k \in KeptByCollapse(s) :
              Cardinality({m \in KeptByCollapse(s) : m < k}) = j - 1]]

\* s.strip('-')
StripHyphens(s) ==
    IF \A k \in 1..Len(s) : s[k] = "-" THEN <<>>
    ELSE LET first == CHOOSE k \in 1..Len(s) :
                          s[k] # "-" /\ \A j \in 1..(k-1) : s[j] = "-"
             last  == CHOOSE k \in 1..Len(s) :
                          s[k] # "-" /\ \A j \in (k+1)..Len(s) : s[j] = "-"
         IN SubSeq(s, first, last)

Unnamed == <<"u","n","n","a","m","e","d">>

\* sanitize_filename: raises on '..', '/' and '\'; otherwise strips the
\* extension, lowercases, replaces unsafe characters by '-', collapses and
\* strips hyphens, substitutes 'unnamed' for '' and cuts at 100 characters.
sanitize_filename(filename) ==
    IF \/ Contains(filename, <<".", ".">>)
       \/ Contains(filename, <<"/">>)
       \/ Contains(filename, <<"\\">>)
    THEN [raised |-> TRUE, value |-> <<>>]
    ELSE LET name      == SplitextRoot(filename)
             lowered   == [k \in 1..Len(name) |-> LowerChar(name[k])]
             replaced  == [k \in 1..Len(lowered) |->
                              IF lowered[k] \in SafeChars THEN lowered[k] ELSE "-"]
             stripped  == StripHyphens(CollapseHyphens(replaced))
             nonempty  == IF stripped = <<>> THEN Unnamed ELSE stripped
             limited   == IF Len(nonempty) > name_limit
                          THEN SubSeq(nonempty, 1, name_limit) ELSE nonempty
         IN [raised |-> FALSE, value |-> limited]

\* ------------------------------------------------------------------ paths

\* str.replace(sub, '') on character sequences.
RECURSIVE RemoveAll(_, _)
RemoveAll(s, sub) ==
    IF Len(s) < Len(sub) \/ sub = <<>> THEN s
    ELSE IF SubSeq(s, 1, Len(sub)) = sub
         THEN RemoveAll(SubSeq(s, Len(sub) + 1, Len(s)), sub)
         ELSE <<s[1]>> \o RemoveAll(Tail(s), sub)

Dot == <<".">>

DotDot == <<".", ".">>

\* os.sep on a POSIX system
Sep == "/"

\* os.getcwd(): the directory the program is started in.
Cwd == <<"/", "w">>

\* os.path.isabs(s)
IsAbs(s) == s # <<>> /\ s[1] = Sep

\* s.startswith(prefix)
StartsWith(s, prefix) ==
    Len(s) >= Len(prefix) /\ SubSeq(s, 1, Len(prefix)) = prefix

\* s.split('/'): the components of a path, empty ones included.
RECURSIVE SplitPath(_, _, _)
SplitPath(s, done, current) ==
    IF s = <<>> THEN Append(done, current)
    ELSE IF Head(s) = Sep THEN SplitPath(Tail(s), Append(done, current), <<>>)
    ELSE SplitPath(Tail(s), done, Append(current, Head(s)))

\* posixpath.join(a, b)
JoinTwo(a, b) ==
    IF IsAbs(b) THEN b
    ELSE IF a = <<>> \/ a[Len(a)] = Sep THEN a \o b
    ELSE a \o <<Sep>> \o b

\* os.path.join(a, *parts)
RECURSIVE os_path_join(_, _)
os_path_join(a, parts) ==
    IF parts = <<>> THEN a
    ELSE os_path_join(JoinTwo(a, Head(parts)), Tail(parts))

\* posixpath.normpath on the components of an absolute path: '' and '.'
\* vanish, '..' removes the component before it and vanishes at the root.
RECURSIVE NormPath(_, _)
NormPath(done, rest) ==
    IF rest = <<>> THEN done
    ELSE IF Head(rest) = <<>> \/ Head(rest) = Dot THEN NormPath(done, Tail(rest))
    ELSE IF Head(rest) = DotDot
         THEN NormPath(SubSeq(done, 1, Len(done) - 1), Tail(rest))
         ELSE NormPath(Append(done, Head(rest)), Tail(rest))

\* sep.join(comps) behind the initial slashes.
RECURSIVE JoinPath(_, _)
JoinPath(prefix, comps) ==
    IF comps = <<>> THEN prefix
    ELSE IF Len(comps) = 1 THEN prefix \o Head(comps)
    ELSE JoinPath(prefix \o Head(comps) \o <<Sep>>, Tail(comps))

\* posixpath.normpath keeps two initial slashes, and turns three or more
\* into one.
InitialSlashes(s) ==
    IF Len(s) >= 2 /\ s[2] = Sep /\ (Len(s) = 2 \/ s[3] # Sep)
    THEN <<Sep, Sep>> ELSE <<Sep>>

\* os.path.normpath(s) for an absolute path s
normpath(s) == JoinPath(InitialSlashes(s), NormPath(<<>>, SplitPath(s, <<>>, <<>>)))

\* os.path.abspath(s): joined to the working directory when relative, then
\* normalised; symbolic links are not looked at.
abspath(s) == normpath(IF IsAbs(s) THEN s ELSE JoinTwo(Cwd, s))

\* A test that forgets the separator behind base_dir.
WithinPrefix(base, requested) == StartsWith(requested, base)

\* requested_path.startswith(base_dir + os.sep) or requested_path == base_dir
WithinBase(base, requested) ==
    StartsWith(requested, base \o <<Sep>>) \/ requested = base

\* The path secure_path_join returns for an absolute base_dir, or its
\* ValueError.
Confined(base, requested) ==
    IF WithinBase(base, requested)
    THEN [raised |-> FALSE, path |-> requested]
    ELSE [raised |-> TRUE, path |-> <<>>]

\* secure_path_join(base_dir, *paths)
secure_path_join(base_dir, paths) ==
    Confined(abspath(base_dir), abspath(os_path_join(abspath(base_dir), paths)))

\* validate_path_component on a POSIX system (os.name # 'nt'): raises on
\* '..', '/', '\', NUL and '~'.
validate_path_component(component) ==
    \A pattern \in {<<".", ".">>, <<"/">>, <<"\\">>, <<"NUL">>, <<"~">>} :
        ~Contains(component, pattern)

INPUT_FOLDER == <<"i","n","p","u","t","_","v","i","d","e","o","s">>

OUTPUT_FOLDER == <<"o","u","t","p","u","t","_","a","u","d","i","o">>

TRANSCRIPTS_FOLDER == <<"t","r","a","n","s","c","r","i","p","t","s">>

ExtMd == <<".","m","d">>

ExtWav == <<".","w","a","v">>

ExtTmp == <<".","t","m","p">>

SuffixPartial == <<"_","p","a","r","t","i","a","l",".","m","d">>

SuffixSubtitles == <<"-","s","u","b","t","i","t","l","e","s",".","m","d">>

\* transcribe_chunks: the checkpoint file of the video name it is given.
\* The result of sanitize_filename and of secure_path_join, raised when one
\* of them raises.
PartialFile(video_name) ==
    LET san == sanitize_filename(video_name) IN
    IF san.raised THEN [raised |-> TRUE, path |-> <<>>]
    ELSE secure_path_join(TRANSCRIPTS_FOLDER, <<san.value \o SuffixPartial>>)

\* check_existing_transcriptions: the transcript and the subtitle file it
\* looks for, from the raw stem and the raw name of the parent directory.
ExpectedFiles(video) ==
    LET video_name    == Stem(video.file)
        course_folder == IF video.dir = <<>> THEN INPUT_FOLDER
                         ELSE video.dir[Len(video.dir)]
        transcript_dir == secure_path_join(TRANSCRIPTS_FOLDER, <<course_folder>>)
    IN IF transcript_dir.raised THEN [raised |-> TRUE, files |-> <<>>]
       ELSE LET t == secure_path_join(transcript_dir.path, <<video_name \o ExtMd>>)
                u == secure_path_join(transcript_dir.path,
                                      <<video_name \o SuffixSubtitles>>)
            IN IF t.raised \/ u.raised THEN [raised |-> TRUE, files |-> <<>>]
               ELSE [raised |-> FALSE, files |-> <<t.path, u.path>>]

\* process_video, line 328: sanitize_filename(video_name)
SanitizedName(video) == sanitize_filename(video.file)

\* process_video, lines 345-347: sanitize_filename(part + '.tmp') for every
\* part of rel_dir.
SanitizedParts(video) ==
    [k \in 1..Len(video.dir) |-> sanitize_filename(video.dir[k] \o ExtTmp)]

\* process_video, lines 347 and 352: the parts after .replace('.tmp', '').
SanitizedRelDir(video) ==
    [k \in 1..Len(video.dir) |-> RemoveAll(SanitizedParts(video)[k].value, ExtTmp)]

\* process_video, lines 343-358: audio_output_base and
\* transcript_output_base for the root folder given.
OutputBase(root, video) ==
    IF video.dir = <<>> THEN [raised |-> FALSE, path |-> root]
    ELSE secure_path_join(root, <<os_path_join(Head(SanitizedRelDir(video)),
                                               Tail(SanitizedRelDir(video)))>>)

\* process_video, line 361
AudioOutputDir(video) ==
    secure_path_join(OutputBase(OUTPUT_FOLDER, video).path,
                     <<SanitizedName(video).value>>)

\* process_video, line 366
AudioFile(video) ==
    secure_path_join(AudioOutputDir(video).path,
                     <<SanitizedName(video).value \o ExtWav>>)

\* chunk_audio, line 241: f"chunk_{chunk_num:03d}.wav"
DecimalDigits == <<"0", "1", "2", "3", "4", "5", "6", "7", "8", "9">>

ChunkName(chunk_num) ==
    <<"c", "h", "u", "n", "k", "_",
      DecimalDigits[((chunk_num \div 100) % 10) + 1],
      DecimalDigits[((chunk_num \div 10) % 10) + 1],
      DecimalDigits[(chunk_num % 10) + 1]>> \o ExtWav

\* The largest number of chunks an audio is cut into.
MostChunks == IF MaxChunks > MaxLongChunks THEN MaxChunks ELSE MaxLongChunks

\* chunk_audio, line 241: the path of every chunk file, in the output_dir
\* process_video passes (its audio_output_dir).
ChunkFiles(video) ==
    [k \in 1..MostChunks |->
        secure_path_join(AudioOutputDir(video).path, <<ChunkName(k - 1)>>)]

\* process_video, line 440: chunk_pattern
ChunkPattern(video) ==
    secure_path_join(AudioOutputDir(video).path,
                     <<<<"c", "h", "u", "n", "k", "_", "*">> \o ExtWav>>)

\* process_video, line 407
TranscriptFile(video) ==
    secure_path_join(OutputBase(TRANSCRIPTS_FOLDER, video).path,
                     <<SanitizedName(video).value \o ExtMd>>)

\* process_video, line 426
SubtitleFile(video) ==
    secure_path_join(OutputBase(TRANSCRIPTS_FOLDER, video).path,
                     <<SanitizedName(video).value \o SuffixSubtitles>>)

\* process_video raises before the transcription starts: sanitize_filename,
\* validate_path_component or secure_path_join raises (lines 328-366), or
\* transcribe_chunks raises on its first line (285).
PathsRaise(video) ==
    \/ SanitizedName(video).raised
    \/ \E k \in 1..Len(video.dir) : SanitizedParts(video)[k].raised
    \/ \E k \in 1..Len(video.dir) : ~validate_path_component(SanitizedRelDir(video)[k])
    \/ OutputBase(OUTPUT_FOLDER, video).raised
    \/ OutputBase(TRANSCRIPTS_FOLDER, video).raised
    \/ AudioOutputDir(video).raised
    \/ AudioFile(video).raised

\* --------------------------------------------------- videos, audio, service

\* input_videos/a/l.mp4
VideoA == [dir |-> << <<"a">> >>, file |-> <<"l",".","m","p","4">>]

\* input_videos/b/L.mp4
VideoB == [dir |-> << <<"b">> >>, file |-> <<"L",".","m","p","4">>]

\* input_videos/m.mp4
VideoM == [dir |-> <<>>, file |-> <<"m",".","m","p","4">>]

\* input_videos/a/l.mkv, in one folder with l.mp4
VideoK == [dir |-> << <<"a">> >>, file |-> <<"l",".","m","k","v">>]

Videos == {VideoA, VideoB, VideoM, VideoK}

\* get_video_files returns sorted(video_files): the order of the full paths
\* input_videos/a/l.mkv < input_videos/a/l.mp4 < input_videos/b/L.mp4 <
\* input_videos/m.mp4.
PathRank(video) ==
    CASE video = VideoK -> 0
      [] video = VideoA -> 1
      [] video = VideoB -> 2
      [] video = VideoM -> 3

\* The lists get_video_files can return for the input folders considered:
\* one or two of the videos that have a folder or a level of their own.
DiscoverySets ==
    {list \in UNION {[1..n -> {VideoA, VideoB, VideoM}] : n \in 1..2} :
        \A k \in 1..(Len(list) - 1) : PathRank(list[k]) < PathRank(list[k+1])}

\* process_video, lines 327-366 and 407-426, transcribe_chunks, line 285,
\* and check_existing_transcriptions, lines 33-39: the names and paths the
\* program computes for a video; they depend on the video's path alone.
Paths ==
    [video \in Videos |->
        [expected        |-> ExpectedFiles(video),
         raises          |-> PathsRaise(video),
         sanitized_name  |-> SanitizedName(video),
         audio_file      |-> AudioFile(video),
         chunk_files     |-> ChunkFiles(video),
         chunk_pattern   |-> ChunkPattern(video),
         transcript_file |-> TranscriptFile(video),
         subtitle_file   |-> SubtitleFile(video),
         partial_file    |-> PartialFile(SanitizedName(video).value)]]

Languages == {"en", "es", "unknown"}

IndexStr == <<"0","1","2","3","4","5","6","7","8","9","10","11","12","13","14","15">>

VideoTag(video) ==
    CASE video = VideoA -> "a"
      [] video = VideoB -> "b"
      [] video = VideoM -> "m"
      [] video = VideoK -> "k"

\* What the speech in chunk number idx of the video's audio says (the
\* transcription service is deterministic in the text it recognises).
ChunkText(video, idx) == VideoTag(video) \o IndexStr[idx + 1]

\* What the speech of the whole audio file says.
WholeText(video) == VideoTag(video)

\* find_srt_file: the subtitle file next to the video, <<>> when there is
\* none. The input folder holds a/l.srt and no other subtitle file.
find_srt_file(video) ==
    IF video \in {VideoA, VideoK} THEN <<"l", ".", "s", "r", "t">> ELSE <<>>

\* extract_text_from_srt: the text of the subtitles, or "" when the file
\* cannot be read or parsed (None) or holds no text.
SrtTexts(video) == {"", "sub-" \o VideoTag(video)}

\* The responses to one POST: a JSON object with text and language (a
\* missing language reads as 'unknown'), a JSON value that is no object, a
\* body that is not JSON, a status other than 200, and no response at all
\* (requests raises: timeout, connection error).
Responses(languages) ==
    [kind : {"json_dict"}, language : languages]
        \cup [kind : {"json_other", "not_json", "http_error", "no_response"},
              language : {"unknown"}]

\* transcribe_chunk_with_requests: the result for a response to the file
\* whose speech is `speech`.
transcribe_chunk_with_requests(speech, response) ==
    CASE response.kind = "json_dict" ->
            [raised |-> FALSE, text |-> speech, language |-> response.language]
      [] response.kind = "json_other" ->
            [raised |-> FALSE, text |-> speech, language |-> "unknown"]
      [] response.kind = "not_json" ->
            [raised |-> FALSE, text |-> "", language |-> "unknown"]
      [] OTHER ->
            [raised |-> TRUE, text |-> "", language |-> "unknown"]

\* " ".join(texts)
RECURSIVE JoinSpace(_)
JoinSpace(texts) ==
    IF texts = <<>> THEN ""
    ELSE IF Len(texts) = 1 THEN texts[1]
    ELSE texts[1] \o " " \o JoinSpace(Tail(texts))

\* A transcribe_chunks that puts each new text in front of the earlier ones.
PrependText(texts, text) == <<text>> \o texts

\* transcriptions.append(result['text'])
AppendText(texts, text) == Append(texts, text)

\* A transcribe_chunks that lets 'unknown' vote like any language.
AppendAnyLanguage(languages, language) == Append(languages, language)

\* if result['language'] != 'unknown': detected_languages.append(...)
AppendLanguage(languages, language) ==
    IF language # "unknown" THEN Append(languages, language) ELSE languages

\* A transcribe_chunks that saves after the final chunk only.
SaveAtEndOnly(idx, n) == idx + 1 = n

\* (i + 1) % save_frequency == 0 or (i + 1) == len(chunks)
ShouldSave(idx, n) == (idx + 1) % save_frequency = 0 \/ idx + 1 = n

\* A handler that writes the checkpoint without looking at transcriptions.
HandlerSavesAlways(texts) == TRUE

\* The exception handler's `if transcriptions:`.
HandlerSaves(texts) == texts # <<>>

\* The checkpoint the two `with open(partial_file, "w")` blocks write.
Checkpoint(done, n, texts) ==
    [kind |-> "partial", done |-> done, total |-> n, body |-> JoinSpace(texts)]

\* detected_languages.count(tag)
Count(languages, tag) == Cardinality({k \in 1..Len(languages) : languages[k] = tag})

\* max(set(detected_languages), key=detected_languages.count) or "unknown":
\* max returns the first element of maximal count in the iteration order of
\* the set, which for strings changes from process to process, so every tag
\* of maximal count is a possible result.
MostCommon(languages) ==
    IF languages = <<>> THEN {"unknown"}
    ELSE {tag \in {languages[k] : k \in 1..Len(languages)} :
             \A k \in 1..Len(languages) :
                 Count(languages, languages[k]) <= Count(languages, tag)}

\* open(path, "w") and write
WriteFile(files, path, content) == (path :> content) @@ files

\* A cleanup that removes nothing.
KeepFile(files, path) == files

\* if os.path.exists(path): os.remove(path)
RemoveFile(files, path) == [p \in (DOMAIN files) \ {path} |-> files[p]]

\* The position of the one '*' of a pattern.
StarAt(pattern) == CHOOSE k \in 1..Len(pattern) : pattern[k] = "*"

\* glob.glob(pattern) for a pattern whose last component holds one '*':
\* the files whose path is the text before the '*', any text without '/',
\* and the text after the '*'.
glob(files, pattern) ==
    {p \in DOMAIN files :
        /\ Len(p) >= Len(pattern) - 1
        /\ SubSeq(p, 1, StarAt(pattern) - 1) = SubSeq(pattern, 1, StarAt(pattern) - 1)
        /\ SubSeq(p, Len(p) - (Len(pattern) - StarAt(pattern)) + 1, Len(p))
              = SubSeq(pattern, StarAt(pattern) + 1, Len(pattern))
        /\ \A k \in StarAt(pattern)..(Len(p) - (Len(pattern) - StarAt(pattern))) :
              p[k] # Sep}

\* A cleanup that leaves the chunk files.
KeepChunks(files, pattern) == files

\* process_video, lines 440-443: every file glob finds for chunk_pattern
\* is removed.
RemoveChunks(files, pattern) ==
    [p \in (DOMAIN files) \ glob(files, pattern) |-> files[p]]

\* ------------------------------------------------------------------ state

VARIABLES
    video_files,        \* main: the list get_video_files returned
    paths,              \* per video: the names and paths the program computes
                        \* for it, fixed by the video's own path
    audio,              \* per video: whether its audio exceeds 25 MB, and the
                        \* number of chunks chunk_audio cuts it into
    disk,               \* the files under output_audio and transcripts
    writer,             \* history: per file, the video whose processing
                        \* wrote it last
    force_mode,         \* main: '--force' in sys.argv
    vi,                 \* main: position of the loop in video_files
    successful,         \* main: counters
    failed,
    skipped,
    answer,             \* ask_user_confirmation: the line the user entered
    pc,                 \* where the program is
    sanitized_name,     \* process_video: sanitize_filename(video_name)
    chunks,             \* transcribe_chunks: its argument
    i,                  \* transcribe_chunks: the loop index
    transcriptions,     \* transcribe_chunks: the texts so far
    detected_languages, \* transcribe_chunks: the languages so far
    partial_file,       \* transcribe_chunks: the checkpoint path
    returned,           \* what transcribe_chunks returns
    calls               \* history: the calls of transcribe_chunk_with_requests
                        \* of the current transcribe_chunks invocation

\* One call of a function of the program, looked at on its own.
VARIABLES
    call_args,               \* the arguments of the call
    call_result              \* what the call returned or raised, once made

callVars == <<call_args, call_result>>

\* The knowledge-note batch of src/agents.py, a program of its own.
VARIABLES
    transcript_files,        \* batch_process_transcripts: the sorted list found
    notes,                   \* the transcripts whose note exists in output_dir
    notes_force_mode,        \* batch_process_transcripts: its force_mode argument
    ti,                      \* position of the loop in transcript_files
    processed_successfully,  \* batch_process_transcripts: counter
    skipped_notes,           \* batch_process_transcripts: its counter `skipped`
    processing_interrupted,  \* agents: the global flag
    started,                 \* history: the transcripts whose processing began
    reported,                \* history: the summary printed, <<>> when none was
    npc                      \* where the note batch is

agentVars ==
    <<transcript_files, notes, notes_force_mode, ti, processed_successfully,
      skipped_notes, processing_interrupted, started, reported, npc>>

\* The vector store of src/simple_vector_store.py, a component of its own.
VARIABLES
    collections,             \* SimpleVectorStore.collections: per name, the
                             \* documents of the ChromaDB collection
    store_result             \* what the last call of a method returned or raised

storeVars == <<collections, store_result>>

\* EnhancementAgent.enhance_notes_in_directory of src/enhancement_agent.py.
VARIABLES
    note_files,              \* the notes found under the directory
    note_disk,               \* per note: the content of its file and of the
                             \* backup file made in this run, if any
    backup,                  \* the argument `backup`
    ni,                      \* position of the loop in note_files
    results,                 \* the dictionary `results`: its counters and the
                             \* status recorded per file
    enhancement_result,      \* what enhance_note_with_context returned
    epc                      \* where enhance_notes_in_directory is

enhanceVars ==
    <<note_files, note_disk, backup, ni, results, enhancement_result, epc>>

\* PipelineRunner of src/run_pipeline.py.
VARIABLES
    mode,                    \* main: "--quick" or the complete pipeline
    steps_completed,         \* PipelineRunner.steps_completed
    si,                      \* position of the loop in the list of steps
    all_success,             \* run_complete_pipeline: all_success
    ran,                     \* history: the commands run, with their outcomes
    exit_code,               \* the argument of sys.exit, once main has called it
    ppc                      \* where the pipeline runner is

pipelineVars == <<mode, steps_completed, si, all_success, ran, exit_code, ppc>>

\* The variables of the programs other than the two batches.
otherVars == <<storeVars, enhanceVars, pipelineVars>>

vars ==
    <<video_files, audio, paths, disk, writer, force_mode, vi, successful, failed, skipped,
      answer, pc, sanitized_name, chunks, i, transcriptions, detected_languages,
      partial_file, returned, calls, agentVars, callVars, otherVars>>

mainVars == <<force_mode, vi, successful, failed, skipped>>

localVars ==
    <<sanitized_name, chunks, i, transcriptions, detected_languages,
      partial_file, returned, calls>>

\* The variables of the transcription batch.
transcribeVars ==
    <<video_files, audio, paths, disk, writer, mainVars, answer, pc, localVars>>

NoFiles == [p \in {} |-> TRUE]

\* No prompt is open and none was answered in this iteration.
NoAnswer == "<none>"

NoResult == [text |-> "", language |-> "unknown"]

\* The video of the current iteration of main's loop.
Video == video_files[vi]

\* process_video, line 384: 25 * 1024 * 1024 bytes.
SizeLimit == 25 * 1024 * 1024

\* The sizes in bytes of the audio files: a small file, a file of exactly
\* 25 MB and a file one byte larger.
AudioSizes == {1024, SizeLimit, SizeLimit + 1}

\* A test that sends a file of exactly 25 MB to chunking too.
AtLeastLimit(audio_size) == audio_size >= SizeLimit

\* process_video, line 384: audio_size > 25 * 1024 * 1024
LargerThanLimit(audio_size) == audio_size > SizeLimit

\* No audio file is made for the video.
NoAudio == [size |-> 0, big |-> FALSE, n |-> 0]

\* The kinds of audio a video can have: its size, whether process_video
\* cuts it into chunks and, if so, the number n of chunks chunk_audio
\* makes of it.
AudioKinds(maxChunks) ==
    {kind \in [size : AudioSizes, big : BOOLEAN, n : 0..maxChunks] :
        /\ kind.big = LargerThanLimit(kind.size)
        /\ kind.n = 0 <=> ~kind.big}

LocalsReset ==
    /\ sanitized_name' = <<>>
    /\ chunks' = <<>>
    /\ i' = 0
    /\ transcriptions' = <<>>
    /\ detected_languages' = <<>>
    /\ partial_file' = <<>>
    /\ returned' = NoResult
    /\ calls' = <<>>

\* The value of call_result before the call is made.
NotCalled == [called |-> FALSE]

\* No single call is looked at.
NoCall == call_args = <<>> /\ call_result = NotCalled

\* The transcription batch has not been started.
TranscriptionNotRun ==
    /\ video_files = <<>>
    /\ paths = Paths
    /\ audio = [v \in Videos |-> NoAudio]
    /\ disk = NoFiles
    /\ writer = NoFiles
    /\ force_mode = FALSE
    /\ vi = 1
    /\ successful = 0
    /\ failed = 0
    /\ skipped = 0
    /\ answer = NoAnswer
    /\ pc = "off"
    /\ sanitized_name = <<>>
    /\ chunks = <<>>
    /\ i = 0
    /\ transcriptions = <<>>
    /\ detected_languages = <<>>
    /\ partial_file = <<>>
    /\ returned = NoResult
    /\ calls = <<>>

\* The note batch has not been started.
AgentsNotRun ==
    /\ transcript_files = <<>>
    /\ notes = {}
    /\ notes_force_mode = FALSE
    /\ ti = 1
    /\ processed_successfully = 0
    /\ skipped_notes = 0
    /\ processing_interrupted = FALSE
    /\ started = {}
    /\ reported = <<>>
    /\ npc = "off"

\* SimpleVectorStore.__init__, lines 26-27: no client, no collections.
StoreNotConnected ==
    /\ collections = <<>>
    /\ store_result = NotCalled

\* The value of enhancement_result before enhance_note_with_context is
\* called.
NoEnhancement == [status |-> "none", enhanced_content |-> <<>>]

\* enhance_notes_in_directory has not been called.
EnhancementNotRun ==
    /\ note_files = <<>>
    /\ note_disk = <<>>
    /\ backup = FALSE
    /\ ni = 1
    /\ results = [enhanced |-> 0, failed |-> 0, files |-> <<>>]
    /\ enhancement_result = NoEnhancement
    /\ epc = "off"

\* PipelineRunner.__init__, lines 20-22; main has not been started.
PipelineNotRun ==
    /\ mode = "complete"
    /\ steps_completed = <<>>
    /\ si = 1
    /\ all_success = TRUE
    /\ ran = <<>>
    /\ exit_code = -1
    /\ ppc = "off"

\* None of the other programs has been started.
OthersNotRun == StoreNotConnected /\ EnhancementNotRun /\ PipelineNotRun

InitMain(lists, kinds) ==
    /\ video_files \in lists
    /\ paths = Paths
    /\ audio \in [Videos -> kinds \cup {NoAudio}]
    /\ \A k \in 1..Len(video_files) : audio[video_files[k]] # NoAudio
    /\ \A v \in Videos :
          (\A k \in 1..Len(video_files) : video_files[k] # v) => audio[v] = NoAudio
    /\ disk = NoFiles
    /\ writer = NoFiles
    /\ force_mode \in BOOLEAN
    /\ vi = 1
    /\ successful = 0
    /\ failed = 0
    /\ skipped = 0
    /\ answer = NoAnswer
    /\ pc = "main"
    /\ sanitized_name = <<>>
    /\ chunks = <<>>
    /\ i = 0
    /\ transcriptions = <<>>
    /\ detected_languages = <<>>
    /\ partial_file = <<>>
    /\ returned = NoResult
    /\ calls = <<>>
    /\ AgentsNotRun
    /\ OthersNotRun
    /\ NoCall

Init == InitMain(DiscoverySets, AudioKinds(MaxChunks))

\* The history of writers after a step of the video's processing that
\* turns the disk into `files`: a file that is new or changed is the
\* video's, a removed file has no writer.
WrittenBy(files, video) ==
    [p \in DOMAIN files |->
        IF p \in DOMAIN disk /\ disk[p] = files[p] THEN writer[p] ELSE video]

\* ------------------------------------------------------------- main's loop

\* A loop that a failure of one video ends.
PastLastVideo(index) == Len(video_files) + 1

\* main, line 478: `for video_path in video_files` goes on to the next
\* video when the body ends, also through the except clause.
NextVideo(index) == index + 1

\* A loop that forgets the video that failed.
DropFailure(count) == count

\* main, lines 496, 505 and 509: failed += 1
CountFailure(count) == count + 1

\* check_existing_transcriptions(video_path, OUTPUT_FOLDER)
ExistingFiles(video) ==
    LET expected == paths[video].expected.files IN
    {expected[k] : k \in 1..Len(expected)} \cap DOMAIN disk

\* What the user does at the prompt of ask_user_confirmation: a line typed
\* and entered, or Ctrl-C.
Answers == {"", "y", "yes", "Y", "n", "no", " NO ", "maybe", "^C"}

\* input(prompt).lower().strip() for the lines considered.
LowerStrip(line) ==
    CASE line = "Y" -> "y"
      [] line = " NO " -> "no"
      [] OTHER -> line

\* ask_user_confirmation(message): default="n", so an empty line means no.
DefaultAnswer == FALSE

\* ask_user_confirmation for one line of the user: it returns `value`, or (again) the
\* loop prints its hint and prompts once more.
ask_user_confirmation(line) ==
    IF line = "^C" THEN [again |-> FALSE, value |-> FALSE]
    ELSE LET response == LowerStrip(line) IN
         IF response = "" THEN [again |-> FALSE, value |-> DefaultAnswer]
         ELSE IF response \in {"y", "yes"} THEN [again |-> FALSE, value |-> TRUE]
         ELSE IF response \in {"n", "no"} THEN [again |-> FALSE, value |-> FALSE]
         ELSE [again |-> TRUE, value |-> FALSE]

\* main, lines 478-486: check_existing_transcriptions finds outputs of the
\* video.
OutputsExist ==
    /\ pc = "main"
    /\ vi <= Len(video_files)
    /\ ~paths[Video].expected.raised
    /\ ExistingFiles(Video) # {}

\* A loop that asks in force mode too.
AsksAlways == TRUE

\* main, line 486: `force_mode or ask_user_confirmation(...)` asks only
\* when force mode is off.
AsksUser == ~force_mode

\* main, lines 478-486, and ask_user_confirmation, lines 49-56: the outputs
\* exist, force mode is off, the prompt is printed.
Prompt ==
    /\ OutputsExist
    /\ AsksUser
    /\ pc' = "prompt"
    /\ UNCHANGED answer
    /\ UNCHANGED <<callVars, otherVars, agentVars, video_files, audio, paths, disk, writer, mainVars, localVars>>

\* ask_user_confirmation, lines 54-64: the user enters a line or presses
\* Ctrl-C; the function returns, or prints its hint and prompts again.
Answer ==
    /\ pc = "prompt"
    /\ \E line \in Answers :
          /\ answer' = line
          /\ pc' = IF ask_user_confirmation(line).again THEN "prompt" ELSE "answered"
    /\ UNCHANGED <<callVars, otherVars, agentVars, video_files, audio, paths, disk, writer, mainVars, localVars>>

\* main, lines 495-497: ask_user_confirmation returned False (an empty
\* line, 'n', 'no', or Ctrl-C at the prompt); the video is skipped.
SkipVideo ==
    /\ pc = "answered"
    /\ ~ask_user_confirmation(answer).value
    /\ skipped' = skipped + 1
    /\ vi' = NextVideo(vi)
    /\ pc' = "main"
    /\ answer' = NoAnswer
    /\ UNCHANGED <<callVars, otherVars, agentVars, video_files, audio, paths, disk, writer, force_mode, successful, failed,
                   localVars>>

\* The iteration of main's loop calls process_video: no outputs exist, or
\* force mode is on, or the user answers yes.
CallsProcessVideo ==
    \/ /\ pc = "main"
       /\ vi <= Len(video_files)
       /\ ~paths[Video].expected.raised
       /\ ExistingFiles(Video) = {} \/ force_mode
    \/ /\ pc = "answered"
       /\ ask_user_confirmation(answer).value

\* main, lines 478-509, with process_video, lines 325-377: the iteration
\* counts the video as failed before any transcription starts:
\* check_existing_transcriptions or the path computations of process_video
\* raise, or the audio file does not exist and the conversion creates none
\* (process_video returns False).
VideoFails ==
    /\ \/ /\ pc = "main"
          /\ vi <= Len(video_files)
          /\ paths[Video].expected.raised
       \/ /\ CallsProcessVideo
          /\ \/ paths[Video].raises
             \/ paths[Video].audio_file.path \notin DOMAIN disk
    /\ failed' = CountFailure(failed)
    /\ vi' = NextVideo(vi)
    /\ pc' = "main"
    /\ answer' = NoAnswer
    /\ UNCHANGED <<callVars, otherVars, agentVars, video_files, audio, paths, disk, writer, force_mode, successful, skipped,
                   localVars>>

\* process_video, lines 365-372: the audio file after the conversion step
\* (convert_video_to_audio runs only when the file does not exist).
AudioContent(video) ==
    [kind |-> "audio", size |-> audio[video].size, source |-> video]

\* process_video, lines 368-372: the disk once the audio file exists.
AfterConversion(video) ==
    IF paths[video].audio_file.path \in DOMAIN disk THEN disk
    ELSE WriteFile(disk, paths[video].audio_file.path, AudioContent(video))

\* process_video, lines 365-380: the video whose audio is in the audio
\* file that process_video finds or makes for `video`.
AudioSource(video) ==
    AfterConversion(video)[paths[video].audio_file.path].source

\* The video whose audio the running process_video transcribes.
Heard == disk[paths[Video].audio_file.path].source

\* chunk_audio, lines 238-245: the disk once chunks 0..n-1 of the
\* video are exported to its audio_output_dir.
RECURSIVE ExportChunks(_, _, _)
ExportChunks(files, video, n) ==
    IF n = 0 THEN files
    ELSE WriteFile(ExportChunks(files, video, n - 1),
                   paths[video].chunk_files[n].path,
                   [kind |-> "chunk", source |-> AudioSource(video).file,
                    chunk_num |-> n - 1])

\* process_video, lines 325-391, then transcribe_chunks, lines 281-288: the
\* audio exists or is converted, is larger than 25 MB and is cut into
\* chunks; transcribe_chunks starts.
StartChunks ==
    /\ CallsProcessVideo
    /\ ~paths[Video].raises
    /\ LargerThanLimit(audio[AudioSource(Video)].size)
    /\ ~paths[Video].partial_file.raised
    /\ disk' = ExportChunks(AfterConversion(Video), Video, audio[AudioSource(Video)].n)
    /\ writer' = WrittenBy(disk', Video)
    /\ sanitized_name' = paths[Video].sanitized_name.value
    /\ chunks' = [k \in 1..audio[AudioSource(Video)].n |-> k - 1]
    /\ partial_file' = paths[Video].partial_file.path
    /\ i' = 0
    /\ transcriptions' = <<>>
    /\ detected_languages' = <<>>
    /\ returned' = NoResult
    /\ calls' = <<>>
    /\ pc' = "loop"
    /\ answer' = NoAnswer
    /\ UNCHANGED <<callVars, otherVars, agentVars, video_files, audio, paths, mainVars>>

\* In the history of calls, the call that sends the whole audio file.
WholeFile == -1

\* process_video, lines 325-399: the audio exists or is converted and is at
\* most 25 MB; the whole file is sent in one call.
StartWhole ==
    /\ CallsProcessVideo
    /\ ~paths[Video].raises
    /\ ~LargerThanLimit(audio[AudioSource(Video)].size)
    /\ disk' = AfterConversion(Video)
    /\ writer' = WrittenBy(disk', Video)
    /\ sanitized_name' = paths[Video].sanitized_name.value
    /\ calls' = <<[chunk |-> WholeFile, consumed |-> 0, outcome |-> "pending",
                   language |-> "unknown"]>>
    /\ pc' = "whole"
    /\ answer' = NoAnswer
    /\ UNCHANGED <<callVars, otherVars, agentVars, video_files, audio, paths, mainVars, chunks, i, transcriptions,
                   detected_languages, partial_file, returned>>

\* The transcript process_video writes, lines 406-415.
Transcript(video, result) ==
    [kind |-> "transcript", source |-> video.file,
     language |-> result.language, body |-> result.text]

\* The subtitles file process_video writes, lines 427-433.
Subtitles(video, srt_text) ==
    [kind |-> "subtitles", source |-> video.file,
     srt |-> find_srt_file(video), body |-> srt_text]

\* process_video, lines 406-437: the disk after the transcript is written,
\* and the subtitles file when there is a subtitle file with a text.
WrittenFiles(video, result, srt_text) ==
    LET saved == WriteFile(disk, paths[video].transcript_file.path,
                           Transcript(video, result))
    IN IF find_srt_file(video) # <<>> /\ srt_text # ""
       THEN WriteFile(saved, paths[video].subtitle_file.path,
                      Subtitles(video, srt_text))
       ELSE saved

\* process_video, lines 406-445: the disk when process_video returns True:
\* the transcript and the subtitles are written, then the chunk files of
\* audio_output_dir are removed.
SavedFiles(video, result, srt_text) ==
    RemoveChunks(WrittenFiles(video, result, srt_text),
                 paths[video].chunk_pattern.path)

\* process_video, lines 399-445, and main, lines 493-494 and 502-503: the
\* single call returns, the transcript is written, the video counts as
\* successful.
WholeDone(responses) ==
    /\ pc = "whole"
    /\ \E response \in responses :
          LET result == transcribe_chunk_with_requests(WholeText(Heard), response)
          IN /\ ~result.raised
             /\ \E srt_text \in SrtTexts(Video) :
                    disk' = SavedFiles(Video, result, srt_text)
    /\ writer' = WrittenBy(disk', Video)
    /\ successful' = successful + 1
    /\ vi' = NextVideo(vi)
    /\ pc' = "main"
    /\ LocalsReset
    /\ UNCHANGED answer
    /\ UNCHANGED <<callVars, otherVars, agentVars, video_files, audio, paths, force_mode, failed, skipped>>

\* process_video, line 399, and main, lines 507-509: the single call
\* raises, main counts the video as failed.
WholeFails(responses) ==
    /\ pc = "whole"
    /\ \E response \in responses :
          transcribe_chunk_with_requests(WholeText(Heard), response).raised
    /\ failed' = CountFailure(failed)
    /\ vi' = NextVideo(vi)
    /\ pc' = "main"
    /\ LocalsReset
    /\ UNCHANGED answer
    /\ UNCHANGED <<callVars, otherVars, agentVars, video_files, audio, paths, disk, writer, force_mode, successful, skipped>>

\* -------------------------------------------------------- transcribe_chunks

\* A loop that takes the same chunk again.
SameIndex(idx) == idx

\* The loop index after an iteration that raised nothing.
NextIndex(idx) == idx + 1

\* transcribe_chunks, lines 290-292: the loop takes chunk i and the request
\* for it is sent.
Submit ==
    /\ pc = "loop"
    /\ i < Len(chunks)
    /\ calls' = Append(calls, [chunk |-> chunks[i + 1],
                               consumed |-> Len(transcriptions),
                               outcome |-> "pending",
                               language |-> "unknown"])
    /\ pc' = "waiting"
    /\ UNCHANGED answer
    /\ UNCHANGED <<callVars, otherVars, agentVars, video_files, audio, paths, disk, writer, mainVars, sanitized_name, chunks, i,
                   transcriptions, detected_languages, partial_file, returned>>

\* transcribe_chunks, lines 292-301: transcribe_chunk_with_requests returns
\* a result; it is appended and the checkpoint is written when due.
ChunkDone(responses) ==
    /\ pc = "waiting"
    /\ \E response \in responses :
          LET result == transcribe_chunk_with_requests(
                            ChunkText(Heard, chunks[i + 1]), response)
              texts  == AppendText(transcriptions, result.text)
          IN /\ ~result.raised
             /\ transcriptions' = texts
             /\ detected_languages' =
                    AppendLanguage(detected_languages, result.language)
             /\ disk' = IF ShouldSave(i, Len(chunks))
                        THEN WriteFile(disk, partial_file,
                                       Checkpoint(i + 1, Len(chunks), texts))
                        ELSE disk
             /\ calls' = [calls EXCEPT ![Len(calls)].outcome = response.kind,
                                       ![Len(calls)].language = result.language]
    /\ writer' = WrittenBy(disk', Video)
    /\ i' = NextIndex(i)
    /\ pc' = "loop"
    /\ UNCHANGED answer
    /\ UNCHANGED <<callVars, otherVars, agentVars, video_files, audio, paths, mainVars, sanitized_name, chunks,
                   partial_file, returned>>

\* transcribe_chunks, lines 303-310: transcribe_chunk_with_requests raises;
\* the handler writes the checkpoint when there is a text and re-raises.
ChunkFails(responses) ==
    /\ pc = "waiting"
    /\ \E response \in responses :
          /\ transcribe_chunk_with_requests(
                 ChunkText(Heard, chunks[i + 1]), response).raised
          /\ calls' = [calls EXCEPT ![Len(calls)].outcome = response.kind]
    /\ disk' = IF HandlerSaves(transcriptions)
               THEN WriteFile(disk, partial_file,
                              Checkpoint(i, Len(chunks), transcriptions))
               ELSE disk
    /\ writer' = WrittenBy(disk', Video)
    /\ pc' = "raised"
    /\ UNCHANGED answer
    /\ UNCHANGED <<callVars, otherVars, agentVars, video_files, audio, paths, mainVars, sanitized_name, chunks, i,
                   transcriptions, detected_languages, partial_file, returned>>

\* transcribe_chunks, lines 312-320: the loop is exhausted; the language is
\* voted and the checkpoint removed. The function is about to return.
Complete ==
    /\ pc = "loop"
    /\ i >= Len(chunks)
    /\ \E language \in MostCommon(detected_languages) :
          returned' = [text |-> JoinSpace(transcriptions), language |-> language]
    /\ disk' = RemoveFile(disk, partial_file)
    /\ writer' = WrittenBy(disk', Video)
    /\ pc' = "return"
    /\ UNCHANGED answer
    /\ UNCHANGED <<callVars, otherVars, agentVars, video_files, audio, paths, mainVars, sanitized_name, chunks, i,
                   transcriptions, detected_languages, partial_file, calls>>

\* transcribe_chunks, line 322, process_video, lines 391-445, and main,
\* lines 493-494 and 502-503: the result is returned, the transcript is
\* written, the video counts as successful.
SaveTranscript ==
    /\ pc = "return"
    /\ \E srt_text \in SrtTexts(Video) :
          disk' = SavedFiles(Video, returned, srt_text)
    /\ writer' = WrittenBy(disk', Video)
    /\ successful' = successful + 1
    /\ vi' = NextVideo(vi)
    /\ pc' = "main"
    /\ LocalsReset
    /\ UNCHANGED answer
    /\ UNCHANGED <<callVars, otherVars, agentVars, video_files, audio, paths, force_mode, failed, skipped>>

\* transcribe_chunks, line 310, and main, lines 507-509: the exception
\* leaves transcribe_chunks and process_video; main counts the video as
\* failed.
CatchInMain ==
    /\ pc = "raised"
    /\ failed' = CountFailure(failed)
    /\ vi' = NextVideo(vi)
    /\ pc' = "main"
    /\ LocalsReset
    /\ UNCHANGED answer
    /\ UNCHANGED <<callVars, otherVars, agentVars, video_files, audio, paths, disk, writer, force_mode, successful, skipped>>

\* Ctrl-C while main's loop runs and no prompt is open: Python raises
\* KeyboardInterrupt, which no `except Exception` catches (lines 303, 507);
\* it leaves transcribe_chunks, process_video and main, and the program
\* ends with a traceback.
Interrupted ==
    /\ \/ pc = "main" /\ vi <= Len(video_files)
       \/ pc \in {"whole", "loop", "waiting", "return", "raised"}
    /\ pc' = "aborted"
    /\ UNCHANGED answer
    /\ UNCHANGED <<callVars, otherVars, agentVars, video_files, audio, paths, disk, writer, mainVars, localVars>>

\* main, lines 511-520: the loop is over, the summary is printed, main
\* returns.
Summary ==
    /\ pc = "main"
    /\ vi > Len(video_files)
    /\ pc' = "exit"
    /\ UNCHANGED answer
    /\ UNCHANGED <<callVars, otherVars, agentVars, video_files, audio, paths, disk, writer, mainVars, localVars>>

\* main, lines 448-476: the program is started again on the same input
\* folder, with or without --force.
Restart ==
    /\ pc \in {"exit", "aborted"}
    /\ force_mode' \in BOOLEAN
    /\ vi' = 1
    /\ successful' = 0
    /\ failed' = 0
    /\ skipped' = 0
    /\ pc' = "main"
    /\ LocalsReset
    /\ UNCHANGED answer
    /\ UNCHANGED <<callVars, otherVars, agentVars, video_files, audio, paths, disk, writer>>

\* ------------------------------------- agents.py: batch_process_transcripts

\* The transcript of the current iteration of the loop.
TranscriptItem == transcript_files[ti]

\* check_existing_note(transcript_file, output_dir): the note of the
\* transcript exists (for names that the cleaning of lines 1050 and
\* 991-992 leaves unchanged).
check_existing_note(item) == item \in notes

\* signal_handler, lines 36-52, on SIGINT while the loop runs: the flag is
\* set, then sys.exit(0) raises SystemExit at the point the program was
\* interrupted; neither `except Exception` nor `except KeyboardInterrupt`
\* catches it and the process exits.
SignalHandler ==
    /\ \/ npc = "loop" /\ ti <= Len(transcript_files)
       \/ npc \in {"prompt", "processing"}
    /\ processing_interrupted' = TRUE
    /\ npc' = "exited"
    /\ UNCHANGED <<transcript_files, notes, notes_force_mode, ti,
                   processed_successfully, skipped_notes, started, reported>>
    /\ UNCHANGED <<callVars, otherVars, transcribeVars>>

\* batch_process_transcripts, lines 1112-1124, and ask_user_confirmation,
\* lines 1065-1072: the flag is not set, the note exists, force mode is
\* off; the prompt is printed.
NotesPrompt ==
    /\ npc = "loop"
    /\ ti <= Len(transcript_files)
    /\ ~processing_interrupted
    /\ check_existing_note(TranscriptItem)
    /\ ~notes_force_mode
    /\ npc' = "prompt"
    /\ UNCHANGED <<transcript_files, notes, notes_force_mode, ti,
                   processed_successfully, skipped_notes, processing_interrupted,
                   started, reported>>
    /\ UNCHANGED <<callVars, otherVars, transcribeVars>>

\* ask_user_confirmation, lines 1070-1077 (Ctrl-C goes to signal_handler),
\* and batch_process_transcripts, lines 1134-1136: the user declines.
NotesSkip ==
    /\ npc = "prompt"
    /\ \E line \in Answers \ {"^C"} :
          /\ ~ask_user_confirmation(line).again
          /\ ~ask_user_confirmation(line).value
    /\ skipped_notes' = skipped_notes + 1
    /\ ti' = ti + 1
    /\ npc' = "loop"
    /\ UNCHANGED <<transcript_files, notes, notes_force_mode, processed_successfully,
                   processing_interrupted, started, reported>>
    /\ UNCHANGED <<callVars, otherVars, transcribeVars>>

\* batch_process_transcripts, lines 1112-1129 and 1137-1139: the flag is
\* not set; there is no note, or force mode is on, or the user answers yes;
\* process_transcript_to_academic_note is called.
NotesStart ==
    /\ \/ /\ npc = "loop"
          /\ ti <= Len(transcript_files)
          /\ ~processing_interrupted
          /\ ~check_existing_note(TranscriptItem) \/ notes_force_mode
       \/ /\ npc = "prompt"
          /\ \E line \in Answers \ {"^C"} :
                /\ ~ask_user_confirmation(line).again
                /\ ask_user_confirmation(line).value
    /\ started' = started \cup {TranscriptItem}
    /\ npc' = "processing"
    /\ UNCHANGED <<transcript_files, notes, notes_force_mode, ti,
                   processed_successfully, skipped_notes, processing_interrupted,
                   reported>>
    /\ UNCHANGED <<callVars, otherVars, transcribeVars>>

\* process_transcript_to_academic_note_async, lines 986-1017, and
\* batch_process_transcripts, lines 1129-1131 and 1139-1141: the note is
\* saved and the result counted.
NoteSaved ==
    /\ npc = "processing"
    /\ notes' = notes \cup {TranscriptItem}
    /\ processed_successfully' = processed_successfully + 1
    /\ ti' = ti + 1
    /\ npc' = "loop"
    /\ UNCHANGED <<transcript_files, notes_force_mode, skipped_notes,
                   processing_interrupted, started, reported>>
    /\ UNCHANGED <<callVars, otherVars, transcribeVars>>

\* process_transcript_to_academic_note_async, lines 1020-1022, and
\* batch_process_transcripts, lines 1132-1133 and 1142-1143: the workflow
\* raises, None is returned, no counter changes.
NoteFails ==
    /\ npc = "processing"
    /\ ti' = ti + 1
    /\ npc' = "loop"
    /\ UNCHANGED <<transcript_files, notes, notes_force_mode, processed_successfully,
                   skipped_notes, processing_interrupted, started, reported>>
    /\ UNCHANGED <<callVars, otherVars, transcribeVars>>

\* batch_process_transcripts, lines 1148-1150: the remainder reported after
\* an interruption.
Remaining ==
    Len(transcript_files) - processed_successfully - skipped_notes

\* batch_process_transcripts, lines 1112-1115 and 1145-1151: the loop ends,
\* at the end of the list or because the flag is set, and the summary is
\* printed.
NotesSummary ==
    /\ npc = "loop"
    /\ IF processing_interrupted THEN TRUE ELSE ti > Len(transcript_files)
    /\ reported' = <<[interrupted |-> processing_interrupted,
                      processed |-> processed_successfully,
                      skipped |-> skipped_notes,
                      remaining |-> IF processing_interrupted THEN Remaining ELSE 0]>>
    /\ npc' = "done"
    /\ UNCHANGED <<transcript_files, notes, notes_force_mode, ti,
                   processed_successfully, skipped_notes, processing_interrupted,
                   started>>
    /\ UNCHANGED <<callVars, otherVars, transcribeVars>>

\* ---------------------------------------------------------- specifications

\* Spec: batches over one or two videos, run any number of times; the
\* service recognises one language and answers with a JSON object or fails.
BatchResponses ==
    [kind : {"json_dict", "http_error", "no_response"}, language : {"en"}]

Next ==
    \/ Prompt
    \/ Answer
    \/ SkipVideo
    \/ VideoFails
    \/ StartChunks
    \/ StartWhole
    \/ WholeDone(BatchResponses)
    \/ WholeFails(BatchResponses)
    \/ Submit
    \/ ChunkDone(BatchResponses)
    \/ ChunkFails(BatchResponses)
    \/ Complete
    \/ SaveTranscript
    \/ CatchInMain
    \/ Interrupted
    \/ Summary
    \/ Restart

Spec == Init /\ [][Next]_vars

\* SpecChunks: one batch over one video whose audio is cut into chunks, with
\* every response of the service and every language.
AllResponses == Responses(Languages)

InitChunks ==
    /\ InitMain({<<VideoA>>}, AudioKinds(MaxChunks))
    /\ audio[VideoA].big

NextChunks ==
    \/ VideoFails
    \/ StartChunks
    \/ Submit
    \/ ChunkDone(AllResponses)
    \/ ChunkFails(AllResponses)
    \/ Complete
    \/ SaveTranscript
    \/ CatchInMain
    \/ Summary

SpecChunks == InitChunks /\ [][NextChunks]_vars

\* SpecLong: one batch over one video whose audio is cut into up to
\* MaxLongChunks chunks, so that the periodic save happens.
LongResponses ==
    [kind : {"json_dict", "not_json", "http_error"}, language : {"en"}]

InitLong ==
    /\ InitMain({<<VideoA>>}, AudioKinds(MaxLongChunks))
    /\ audio[VideoA].big

NextLong ==
    \/ VideoFails
    \/ StartChunks
    \/ Submit
    \/ ChunkDone(LongResponses)
    \/ ChunkFails(LongResponses)
    \/ Complete
    \/ SaveTranscript
    \/ CatchInMain
    \/ Summary

SpecLong == InitLong /\ [][NextLong]_vars

\* SpecRetry: batches over one video whose audio is cut into chunks, run any
\* number of times; the service recognises one language and answers with a
\* JSON object, with a body that is not JSON, or with an error status.
NextRetry ==
    \/ Prompt
    \/ Answer
    \/ SkipVideo
    \/ VideoFails
    \/ StartChunks
    \/ Submit
    \/ ChunkDone(LongResponses)
    \/ ChunkFails(LongResponses)
    \/ Complete
    \/ SaveTranscript
    \/ CatchInMain
    \/ Summary
    \/ Restart

SpecRetry == InitChunks /\ [][NextRetry]_vars

\* SpecTwins: one batch over input_videos/a/l.mkv and input_videos/a/l.mp4,
\* two videos of one folder whose names differ in the extension only.
InitTwins == InitMain({<<VideoK, VideoA>>}, AudioKinds(MaxChunks))

NextTwins ==
    \/ Prompt
    \/ Answer
    \/ SkipVideo
    \/ VideoFails
    \/ StartChunks
    \/ StartWhole
    \/ WholeDone(BatchResponses)
    \/ WholeFails(BatchResponses)
    \/ Submit
    \/ ChunkDone(BatchResponses)
    \/ ChunkFails(BatchResponses)
    \/ Complete
    \/ SaveTranscript
    \/ CatchInMain
    \/ Summary

SpecTwins == InitTwins /\ [][NextTwins]_vars

\* SpecNotes: one run of batch_process_transcripts over up to MaxNotes
\* transcripts, from the start of its loop (line 1112); the transcription
\* batch is not running.
InitNotes ==
    /\ TranscriptionNotRun
    /\ NoCall
    /\ OthersNotRun
    /\ transcript_files \in {[k \in 1..n |-> k] : n \in 1..MaxNotes}
    /\ notes \in SUBSET {transcript_files[k] : k \in 1..Len(transcript_files)}
    /\ notes_force_mode \in BOOLEAN
    /\ ti = 1
    /\ processed_successfully = 0
    /\ skipped_notes = 0
    /\ processing_interrupted = FALSE
    /\ started = {}
    /\ reported = <<>>
    /\ npc = "loop"

NextNotes ==
    \/ SignalHandler
    \/ NotesPrompt
    \/ NotesSkip
    \/ NotesStart
    \/ NoteSaved
    \/ NoteFails
    \/ NotesSummary

SpecNotes == InitNotes /\ [][NextNotes]_vars

\* SpecJoin: one call of secure_path_join for every base directory of
\* JoinBases and every list of up to MaxParts parts of JoinParts: plain
\* names, '.', '..', the empty string, absolute paths inside and outside
\* the base, siblings of the base that start with its name, and a symbolic
\* link.
JoinBases ==
    {<<"t", "r", "a", "n", "s", "c", "r", "i", "p", "t", "s">>,
     <<"/", "w", "/", "t", "r", "a", "n", "s", "c", "r", "i", "p", "t", "s">>,
     <<"t", "r", "a", "n", "s", "c", "r", "i", "p", "t", "s", "/", "a">>,
     <<"/">>}

JoinParts ==
    {<<"a">>,
     <<".", ".">>,
     <<".">>,
     <<>>,
     <<"/", "e", "t", "c">>,
     <<"a", "/", "b">>,
     <<".", ".", "/", "x">>,
     <<".", ".", "/", "t", "r", "a", "n", "s", "c", "r", "i", "p", "t", "s", "2">>,
     <<".", ".", "/", ".", ".", "/", "e", "t", "c", "/", "p", "a", "s", "s", "w", "d">>,
     <<"/", "w", "/", "t", "r", "a", "n", "s", "c", "r", "i", "p", "t", "s", "/", "a">>,
     <<"/", "w", "/", "t", "r", "a", "n", "s", "c", "r", "i", "p", "t", "s", "2">>,
     <<"o", "u", "t">>,
     <<"a", "/", ".", ".", "/", ".", ".">>,
     <<"/", "/", "e", "t", "c">>}

InitJoin ==
    /\ TranscriptionNotRun
    /\ AgentsNotRun
    /\ OthersNotRun
    /\ call_args \in [base : JoinBases,
                      parts : UNION {[1..n -> JoinParts] : n \in 0..MaxParts}]
    /\ call_result = NotCalled

\* secure_path_join(base, *parts) is called.
CallSecurePathJoin ==
    /\ ~call_result.called
    /\ call_result' = [called |-> TRUE,
                       value |-> secure_path_join(call_args.base, call_args.parts)]
    /\ UNCHANGED <<call_args, transcribeVars, agentVars, otherVars>>

NextJoin == CallSecurePathJoin

SpecJoin == InitJoin /\ [][NextJoin]_vars

\* SpecSanitize: one call of sanitize_filename for every name of up to
\* MaxNameLen characters of NameChars, and for names around the limit of
\* 100 characters.
NameChars == {"a", "B", "1", "_", "-", ".", " ", "!", "/", "\\"}

LongNames ==
    {[k \in 1..(name_limit + 1) |-> "a"],
     [k \in 1..(name_limit + 1) |-> IF k = name_limit THEN "-" ELSE "a"],
     [k \in 1..(name_limit + 4) |-> IF k > name_limit THEN <<".", "m", "p", "4">>[k - name_limit] ELSE "a"]}

InitSanitize ==
    /\ TranscriptionNotRun
    /\ AgentsNotRun
    /\ OthersNotRun
    /\ call_args \in UNION {[1..n -> NameChars] : n \in 0..MaxNameLen} \cup LongNames
    /\ call_result = NotCalled

\* sanitize_filename(name) is called.
CallSanitizeFilename ==
    /\ ~call_result.called
    /\ call_result' = [called |-> TRUE, value |-> sanitize_filename(call_args)]
    /\ UNCHANGED <<call_args, transcribeVars, agentVars, otherVars>>

NextSanitize == CallSanitizeFilename

SpecSanitize == InitSanitize /\ [][NextSanitize]_vars

\* SpecValidate: one call of validate_path_component for every component of
\* up to MaxNameLen characters of ComponentChars; "NUL" stands for the
\* character '\x00'.
ComponentChars == {"a", ".", "/", "\\", "NUL", "~"}

InitValidate ==
    /\ TranscriptionNotRun
    /\ AgentsNotRun
    /\ OthersNotRun
    /\ call_args \in UNION {[1..n -> ComponentChars] : n \in 0..MaxNameLen}
    /\ call_result = NotCalled

\* validate_path_component(component) is called: it returns True or raises
\* ValueError.
CallValidatePathComponent ==
    /\ ~call_result.called
    /\ call_result' = [called |-> TRUE,
                       value |-> IF validate_path_component(call_args)
                                 THEN "True" ELSE "ValueError"]
    /\ UNCHANGED <<call_args, transcribeVars, agentVars, otherVars>>

NextValidate == CallValidatePathComponent

SpecValidate == InitValidate /\ [][NextValidate]_vars

\* chunk_audio, lines 231-233: chunk_length_ms from the duration in ms, the
\* size of the file and max_size_mb (both sizes in one unit), rounded down
\* by int().
chunk_length_ms(total_duration, file_size, max_size) ==
    (max_size * total_duration) \div file_size

\* Variant of SliceEnd: the slice is as long as asked for.
SliceUnclamped(offset, length, total_duration) == offset + length

\* chunk_audio, line 239: audio[i:i + chunk_length_ms] ends at the end of
\* the audio when the slice reaches beyond it.
SliceEnd(offset, length, total_duration) ==
    IF offset + length < total_duration THEN offset + length ELSE total_duration

\* chunk_audio, lines 238-244: the chunks of the loop over
\* range(0, total_duration, chunk_length_ms) from the offset given, each
\* with its number, the offset it starts at and its duration.
RECURSIVE ChunksFrom(_, _, _)
ChunksFrom(offset, length, total_duration) ==
    IF offset >= total_duration THEN <<>>
    ELSE <<[chunk_num |-> offset \div length,
            start     |-> offset,
            duration  |-> SliceEnd(offset, length, total_duration) - offset]>>
         \o ChunksFrom(offset + length, length, total_duration)

\* chunk_audio: range() raises ValueError for a step of 0; otherwise the
\* chunks are returned.
chunk_audio(total_duration, file_size, max_size) ==
    IF chunk_length_ms(total_duration, file_size, max_size) = 0
    THEN [raised |-> TRUE, chunks |-> <<>>]
    ELSE [raised |-> FALSE,
          chunks |-> ChunksFrom(0, chunk_length_ms(total_duration, file_size, max_size),
                                total_duration)]

\* SpecChunkAudio: one call of chunk_audio for every duration up to
\* MaxDuration ms, every file size up to MaxFileSize and the values of
\* max_size_mb in ChunkSizes.
ChunkSizes == {1, 2}

InitChunkAudio ==
    /\ TranscriptionNotRun
    /\ AgentsNotRun
    /\ OthersNotRun
    /\ call_args \in [total_duration : 1..MaxDuration,
                      file_size      : 1..MaxFileSize,
                      max_size       : ChunkSizes]
    /\ call_result = NotCalled

\* chunk_audio(audio_file, output_dir, max_size_mb) is called.
CallChunkAudio ==
    /\ ~call_result.called
    /\ call_result' = [called |-> TRUE,
                       value |-> chunk_audio(call_args.total_duration,
                                             call_args.file_size, call_args.max_size)]
    /\ UNCHANGED <<call_args, transcribeVars, agentVars, otherVars>>

NextChunkAudio == CallChunkAudio

SpecChunkAudio == InitChunkAudio /\ [][NextChunkAudio]_vars

\* ------------------------------------- simple_vector_store.py: the store

\* config.py, line 31, and chunk_text's default overlap.
CHUNK_SIZE == 500

chunk_overlap == 50

\* The files index_transcript is called with: a path no file has, a file
\* the process may not read, a file that is not UTF-8, and readable
\* transcripts with the number of words of their text.
StoreFiles ==
    [path \in {"t/missing.md", "t/locked.md", "t/binary.md",
               "t/empty.md", "t/one.md", "t/two.md", "t/long.md"} |->
        CASE path = "t/missing.md" -> [error |-> "FileNotFoundError", words |-> 0]
          [] path = "t/locked.md"  -> [error |-> "PermissionError", words |-> 0]
          [] path = "t/binary.md"  -> [error |-> "UnicodeDecodeError", words |-> 0]
          [] path = "t/empty.md"   -> [error |-> "none", words |-> 0]
          [] path = "t/one.md"     -> [error |-> "none", words |-> 1]
          [] path = "t/two.md"     -> [error |-> "none", words |-> 2]
          [] path = "t/long.md"    -> [error |-> "none", words |-> CHUNK_SIZE + 1]]

\* The names search is called with.
CollectionNames == {"transcripts", "knowledge_notes", "non_existent_collection"}

\* The values of `limit` in the calls of search.
Limits == {1, 2}

\* chunk_text, lines 62-75: the number of chunks of a text of `words`
\* words: one per start of range(0, words, step).
chunk_text(words, chunk_size, overlap) ==
    LET step == IF chunk_size - overlap > 1 THEN chunk_size - overlap ELSE 1
    IN (words + step - 1) \div step

\* A handler that catches nothing.
CaughtNever(error) == FALSE

\* `except Exception`, lines 135 and 226: the errors of the calls are all
\* subclasses of Exception.
Caught(error) ==
    error \in {"FileNotFoundError", "PermissionError", "UnicodeDecodeError",
               "KeyError", "ServiceError"}

\* What a method returns when its body raised `error`: the value of its
\* except clause, or the error itself when the clause does not catch it.
Handled(op, arg, error, value) ==
    IF Caught(error) THEN [called |-> TRUE, op |-> op, arg |-> arg,
                           raised |-> FALSE, value |-> value]
    ELSE [called |-> TRUE, op |-> op, arg |-> arg, raised |-> TRUE, value |-> error]

Returned(op, arg, value) ==
    [called |-> TRUE, op |-> op, arg |-> arg, raised |-> FALSE, value |-> value]

\* connect, lines 36-59: both collections are fetched or created; or the
\* client cannot be created and connect returns False.
Connect ==
    /\ collections = <<>>
    /\ \/ /\ collections' = [name \in {"transcripts", "knowledge_notes"} |-> {}]
          /\ store_result' = Returned("connect", "", TRUE)
       \/ /\ collections' = collections
          /\ store_result' = Handled("connect", "", "ServiceError", FALSE)
    /\ UNCHANGED <<callVars, agentVars, transcribeVars, enhanceVars, pipelineVars>>

\* index_transcript, lines 102-121: the documents of a file, one per chunk,
\* identified by the file and the chunk index.
Documents(file_path) ==
    {[source_file |-> file_path, chunk_index |-> k - 1] :
        k \in 1..chunk_text(StoreFiles[file_path].words, CHUNK_SIZE, chunk_overlap)}

\* index_transcript, lines 77-137: the file cannot be read, or the store
\* is not connected, or the collection refuses the documents, and 0 is
\* returned; or the chunks are added and their number is returned.
IndexTranscript ==
    /\ \E file_path \in DOMAIN StoreFiles :
          IF StoreFiles[file_path].error # "none"
          THEN /\ store_result' = Handled("index_transcript", file_path,
                                          StoreFiles[file_path].error, 0)
               /\ collections' = collections
          ELSE IF Documents(file_path) = {}
          THEN /\ store_result' = Returned("index_transcript", file_path, 0)
               /\ collections' = collections
          ELSE IF "transcripts" \notin DOMAIN collections
          THEN /\ store_result' = Handled("index_transcript", file_path, "KeyError", 0)
               /\ collections' = collections
          ELSE \/ /\ store_result' = Returned("index_transcript", file_path,
                                              Cardinality(Documents(file_path)))
                  /\ collections' =
                        [collections EXCEPT !["transcripts"] = @ \cup Documents(file_path)]
               \/ /\ store_result' = Handled("index_transcript", file_path,
                                             "ServiceError", 0)
                  /\ collections' = collections
    /\ UNCHANGED <<callVars, agentVars, transcribeVars, enhanceVars, pipelineVars>>

\* The lists of `n` distinct documents of a set.
Ranked(documents, n) ==
    {list \in [1..n -> documents] :
        \A j, k \in 1..n : j # k => list[j] # list[k]}

\* search, lines 195-228: an unknown collection gives []; otherwise the
\* query returns the nearest documents, at most `limit`, or it raises and
\* [] is returned.
Search ==
    /\ \E collection \in CollectionNames, limit \in Limits :
          IF collection \notin DOMAIN collections
          THEN store_result' = Returned("search", collection, <<>>)
          ELSE \/ \E hits \in Ranked(collections[collection],
                                     IF Cardinality(collections[collection]) < limit
                                     THEN Cardinality(collections[collection])
                                     ELSE limit) :
                     store_result' = Returned("search", collection, hits)
               \/ store_result' = Handled("search", collection, "ServiceError", <<>>)
    /\ collections' = collections
    /\ UNCHANGED <<callVars, agentVars, transcribeVars, enhanceVars, pipelineVars>>

InitStore ==
    /\ TranscriptionNotRun
    /\ AgentsNotRun
    /\ NoCall
    /\ StoreNotConnected
    /\ EnhancementNotRun
    /\ PipelineNotRun

NextStore ==
    \/ Connect
    \/ IndexTranscript
    \/ Search

SpecStore == InitStore /\ [][NextStore]_vars

\* ------------------------- enhancement_agent.py: enhance_notes_in_directory

\* The content of note number k before the run, after a successful
\* enhancement, and after an open(note_file, 'w') whose write failed.
OriginalNote(k) == [text |-> "original", note |-> k]

EnhancedNote(k) == [text |-> "enhanced", note |-> k]

TruncatedNote(k) == [text |-> "", note |-> k]

\* The note of the current iteration of the loop.
NoteFile == note_files[ni]

\* A loop that writes whatever enhance_note_with_context returned.
WritesAlways(result) == TRUE

\* enhance_notes_in_directory, line 323:
\* enhancement_result["status"] == "success"
IsSuccess(result) == result.status = "success"

\* enhance_notes_in_directory, lines 336-340 and 344-348: failed += 1 and
\* the file's entry.
RecordFailed ==
    [results EXCEPT !.failed = @ + 1, !.files[NoteFile] = "failed"]

\* enhance_notes_in_directory, lines 310-321: the iteration begins; with
\* backup the note is copied to its backup file, then
\* enhance_note_with_context is called. When the copy raises, the except
\* clause counts the note as failed: its file could not be opened, or it
\* could not be read and the backup file is left empty.
EnhBackup ==
    /\ epc = "loop"
    /\ ni <= Len(note_files)
    /\ \/ /\ note_disk' = IF backup
                          THEN [note_disk EXCEPT ![NoteFile].backup =
                                                      <<note_disk[NoteFile].content>>]
                          ELSE note_disk
          /\ epc' = "enhancing"
          /\ UNCHANGED <<ni, results>>
       \/ /\ backup
          /\ \/ note_disk' = note_disk
             \/ note_disk' = [note_disk EXCEPT ![NoteFile].backup = <<TruncatedNote(NoteFile)>>]
          /\ results' = RecordFailed
          /\ ni' = ni + 1
          /\ epc' = "loop"
    /\ UNCHANGED <<note_files, backup, enhancement_result>>
    /\ UNCHANGED <<callVars, agentVars, transcribeVars, storeVars, pipelineVars>>

\* enhance_note_with_context, lines 169-280: the model answers and the
\* result has status success and the enhanced content; or anything in the
\* try block raises and the result has status error and no content.
EnhanceReturns ==
    /\ epc = "enhancing"
    /\ enhancement_result' \in
          {[status |-> "success", enhanced_content |-> <<EnhancedNote(NoteFile)>>],
           [status |-> "error", enhanced_content |-> <<>>]}
    /\ epc' = "returned"
    /\ UNCHANGED <<note_files, note_disk, backup, ni, results>>
    /\ UNCHANGED <<callVars, agentVars, transcribeVars, storeVars, pipelineVars>>

\* enhance_notes_in_directory, lines 323-334 and 342-348: the result is a
\* success; the note file is opened for writing and the content written,
\* the note counts as enhanced; or the write raises after the file was
\* opened (and emptied) or before, and the note counts as failed.
EnhWrite ==
    /\ epc = "returned"
    /\ IsSuccess(enhancement_result)
    /\ \/ /\ enhancement_result.enhanced_content # <<>>
          /\ note_disk' = [note_disk EXCEPT ![NoteFile].content =
                                                 enhancement_result.enhanced_content[1]]
          /\ results' = [results EXCEPT !.enhanced = @ + 1,
                                        !.files[NoteFile] = "enhanced"]
       \/ /\ \/ note_disk' = [note_disk EXCEPT ![NoteFile].content =
                                                    TruncatedNote(NoteFile)]
             \/ note_disk' = note_disk
          /\ results' = RecordFailed
    /\ ni' = ni + 1
    /\ enhancement_result' = NoEnhancement
    /\ epc' = "loop"
    /\ UNCHANGED <<note_files, backup>>
    /\ UNCHANGED <<callVars, agentVars, transcribeVars, storeVars, pipelineVars>>

\* enhance_notes_in_directory, lines 335-340: the result is no success;
\* the note counts as failed.
EnhFailed ==
    /\ epc = "returned"
    /\ ~IsSuccess(enhancement_result)
    /\ results' = RecordFailed
    /\ ni' = ni + 1
    /\ enhancement_result' = NoEnhancement
    /\ epc' = "loop"
    /\ UNCHANGED <<note_files, note_disk, backup>>
    /\ UNCHANGED <<callVars, agentVars, transcribeVars, storeVars, pipelineVars>>

\* enhance_notes_in_directory, lines 350-372: the loop is over and results
\* is returned.
EnhReturn ==
    /\ epc = "loop"
    /\ ni > Len(note_files)
    /\ epc' = "done"
    /\ UNCHANGED <<note_files, note_disk, backup, ni, results, enhancement_result>>
    /\ UNCHANGED <<callVars, agentVars, transcribeVars, storeVars, pipelineVars>>

\* A KeyboardInterrupt reaches the loop: no except clause of lines 313-348
\* and 173-280 catches it, and enhance_notes_in_directory does not return.
EnhInterrupted ==
    /\ epc \in {"loop", "enhancing", "returned"}
    /\ epc' = "interrupted"
    /\ UNCHANGED <<note_files, note_disk, backup, ni, results, enhancement_result>>
    /\ UNCHANGED <<callVars, agentVars, transcribeVars, storeVars, pipelineVars>>

\* SpecEnhance: one call of enhance_notes_in_directory on a directory with
\* up to MaxNotes notes, with and without backup, from the start of its
\* loop (line 310).
InitEnhance ==
    /\ TranscriptionNotRun
    /\ AgentsNotRun
    /\ NoCall
    /\ StoreNotConnected
    /\ PipelineNotRun
    /\ note_files \in {[k \in 1..n |-> k] : n \in 1..MaxNotes}
    /\ note_disk = [k \in 1..Len(note_files) |->
                       [content |-> OriginalNote(k), backup |-> <<>>]]
    /\ backup \in BOOLEAN
    /\ ni = 1
    /\ results = [enhanced |-> 0, failed |-> 0,
                  files |-> [k \in 1..Len(note_files) |-> "none"]]
    /\ enhancement_result = NoEnhancement
    /\ epc = "loop"

NextEnhance ==
    \/ EnhBackup
    \/ EnhanceReturns
    \/ EnhWrite
    \/ EnhFailed
    \/ EnhReturn
    \/ EnhInterrupted

SpecEnhance == InitEnhance /\ [][NextEnhance]_vars

\* ------------------------------------------- run_pipeline.py: PipelineRunner

\* run_complete_pipeline, lines 96-122: the descriptions of its steps, in
\* the order of the list.
CompleteSteps ==
    <<"Step 1: Convert videos to transcripts",
      "Step 2: Generate educational notes (this may take several minutes)",
      "Step 3: Index content into vector database",
      "Step 4: Generate global course context",
      "Step 5: Enhance notes with context">>

\* run_quick_index, lines 165-178.
QuickSteps ==
    <<"Reindex all content", "Generate global context", "Enhance notes">>

\* main, lines 191-196: the list of steps of the function main calls.
Steps == IF mode = "quick" THEN QuickSteps ELSE CompleteSteps

\* run_command, lines 36-55: what subprocess.run does: the command ends
\* with a return code (127: the shell does not find the command), or
\* subprocess.run raises.
Outcomes ==
    {[raised |-> FALSE, returncode |-> c] : c \in {0, 1, 2, 127}}
        \cup {[raised |-> TRUE, returncode |-> -1]}

\* A run_command that takes every command that ended for a success.
RanToEnd(result) == ~result.raised

\* run_command, line 43: result.returncode == 0, inside the try block.
ReturnedZero(result) == ~result.raised /\ result.returncode = 0

\* main, lines 188-196: runner = PipelineRunner() and the choice of the
\* function by sys.argv.
InitPipeline ==
    /\ TranscriptionNotRun
    /\ AgentsNotRun
    /\ NoCall
    /\ StoreNotConnected
    /\ EnhancementNotRun
    /\ mode \in {"complete", "quick"}
    /\ steps_completed = <<>>
    /\ si = 1
    /\ all_success = TRUE
    /\ ran = <<>>
    /\ exit_code = -1
    /\ ppc = "start"

\* run_complete_pipeline, lines 91-93 and check_prerequisites, lines 57-84:
\* .env is missing and the function returns False before any step.
PrerequisitesMissing ==
    /\ ppc = "start"
    /\ mode = "complete"
    /\ ppc' = "return_false"
    /\ UNCHANGED <<mode, steps_completed, si, all_success, ran, exit_code>>
    /\ UNCHANGED <<callVars, agentVars, transcribeVars, storeVars, enhanceVars>>

\* run_complete_pipeline, lines 91-126: .env exists (videos are no hard
\* requirement) and the loop over the steps begins; run_quick_index, lines
\* 160-180, begins its loop without a check.
PipelineStarts ==
    /\ ppc = "start"
    /\ ppc' = "steps"
    /\ UNCHANGED <<mode, steps_completed, si, all_success, ran, exit_code>>
    /\ UNCHANGED <<callVars, agentVars, transcribeVars, storeVars, enhanceVars>>

\* run_command, lines 24-41: the next step of the list is run; skip_if is
\* None for every step, so no step is skipped.
RunCommand ==
    /\ ppc = "steps"
    /\ si <= Len(Steps)
    /\ ppc' = "running"
    /\ UNCHANGED <<mode, steps_completed, si, all_success, ran, exit_code>>
    /\ UNCHANGED <<callVars, agentVars, transcribeVars, storeVars, enhanceVars>>

\* run_command, lines 43-55, and the loops of lines 126-139 and 180-182:
\* with return code 0 the description is appended to steps_completed and
\* the loop goes on; otherwise run_command returns False, and
\* run_complete_pipeline clears all_success and breaks, run_quick_index
\* returns False.
CommandEnds ==
    /\ ppc = "running"
    /\ \E result \in Outcomes :
          /\ ran' = Append(ran, [description |-> Steps[si],
                                 raised |-> result.raised,
                                 returncode |-> result.returncode])
          /\ IF ReturnedZero(result)
             THEN /\ steps_completed' = Append(steps_completed, Steps[si])
                  /\ si' = si + 1
                  /\ ppc' = "steps"
                  /\ UNCHANGED all_success
             ELSE /\ all_success' = FALSE
                  /\ ppc' = IF mode = "quick" THEN "return_false" ELSE "summary"
                  /\ UNCHANGED <<steps_completed, si>>
    /\ UNCHANGED <<mode, exit_code>>
    /\ UNCHANGED <<callVars, agentVars, transcribeVars, storeVars, enhanceVars>>

\* The for loops of lines 126 and 180 are over: run_complete_pipeline goes
\* to its summary, run_quick_index returns True (line 184).
StepsDone ==
    /\ ppc = "steps"
    /\ si > Len(Steps)
    /\ ppc' = IF mode = "quick" THEN "return_true" ELSE "summary"
    /\ UNCHANGED <<mode, steps_completed, si, all_success, ran, exit_code>>
    /\ UNCHANGED <<callVars, agentVars, transcribeVars, storeVars, enhanceVars>>

\* run_complete_pipeline, lines 141-158: the summary, and return all_success.
PipelineSummary ==
    /\ ppc = "summary"
    /\ ppc' = IF all_success THEN "return_true" ELSE "return_false"
    /\ UNCHANGED <<mode, steps_completed, si, all_success, ran, exit_code>>
    /\ UNCHANGED <<callVars, agentVars, transcribeVars, storeVars, enhanceVars>>

\* main, line 198: sys.exit(0 if success else 1).
PipelineExit ==
    /\ ppc \in {"return_true", "return_false"}
    /\ exit_code' = IF ppc = "return_true" THEN 0 ELSE 1
    /\ ppc' = "exited"
    /\ UNCHANGED <<mode, steps_completed, si, all_success, ran>>
    /\ UNCHANGED <<callVars, agentVars, transcribeVars, storeVars, enhanceVars>>

\* Ctrl-C while a command runs: KeyboardInterrupt is no Exception, the
\* except clause of line 53 lets it pass and the interpreter ends the
\* process with status 130.
PipelineInterrupted ==
    /\ ppc = "running"
    /\ exit_code' = 130
    /\ ppc' = "exited"
    /\ UNCHANGED <<mode, steps_completed, si, all_success, ran>>
    /\ UNCHANGED <<callVars, agentVars, transcribeVars, storeVars, enhanceVars>>

NextPipeline ==
    \/ PrerequisitesMissing
    \/ PipelineStarts
    \/ RunCommand
    \/ CommandEnds
    \/ StepsDone
    \/ PipelineSummary
    \/ PipelineExit
    \/ PipelineInterrupted

SpecPipeline == InitPipeline /\ [][NextPipeline]_vars

\* ------------------------------------------------------------------ claims

\* The text the k-th call of the history `log` returned.
TextOfCall(log, k) ==
    transcribe_chunk_with_requests(
        ChunkText(Video, log[k].chunk),
        [kind |-> log[k].outcome, language |-> log[k].language]).text

\* The text returned for chunk number c.
TextOfChunk(log, c) == TextOfCall(log, CHOOSE k \in 1..Len(log) : log[k].chunk = c)

\* texts[1], ..., texts[k] with one space between neighbours, built from
\* the left.
RECURSIVE Spaced(_, _)
Spaced(texts, k) ==
    IF k = 0 THEN ""
    ELSE IF k = 1 THEN texts[1]
    ELSE Spaced(texts, k - 1) \o " " \o texts[k]

\* The texts returned for chunks 0..n-1, spaced.
SpacedChunksOf(log, n) == Spaced([k \in 1..n |-> TextOfChunk(log, k - 1)], n)

\* The same for the calls of the current invocation.
SpacedChunks(n) == SpacedChunksOf(calls, n)

\* C1: when transcribe_chunks is about to return, its full text is the texts
\* returned for chunks 0, 1, ..., N-1, in this order, with exactly one space
\* between two neighbours.
C1_FullTextInIndexOrder ==
    pc = "return" => returned.text = SpacedChunks(Len(chunks))

\* Three chunks with the texts a0, a1, a2 were transcribed: the full text is
\* "a0 a1 a2".
C1_Witness ==
    /\ pc = "return"
    /\ Len(chunks) = 3
    /\ \A k \in 1..3 : calls[k].outcome = "json_dict"
    /\ returned.text = "a0 a1 a2"

\* C2: the k-th call of an invocation is for chunk k-1 (index order, no
\* chunk twice), it was made when the results of all k-1 chunks before it
\* had been consumed, and every call but the last has returned a result.
C2_OneAtATimeInOrder ==
    \A k \in 1..Len(calls) :
        /\ calls[k].chunk = k - 1
        /\ calls[k].consumed = k - 1
        /\ k < Len(calls) =>
              calls[k].outcome \in {"json_dict", "json_other", "not_json"}
        /\ calls[k].outcome = "pending" => pc = "waiting"

\* The third chunk has been submitted after the first two were consumed.
C2_Witness ==
    /\ pc = "waiting"
    /\ Len(calls) = 3
    /\ Len(transcriptions) = 2

\* The speech of chunks 0..n-1 of the current video, spaced: the first n
\* chunks of the full transcription a service that answers every request
\* with a JSON object produces.
SpacedSpeech(n) == Spaced([k \in 1..n |-> ChunkText(Video, k - 1)], n)

\* C3: while transcribe_chunks runs or fails, a checkpoint file on disk
\* holds the texts of chunks 0..k-1 of the video being transcribed, for some
\* k, in index order and without gaps.
C3_CheckpointIsPrefix ==
    (pc \in {"loop", "waiting", "raised"} /\ partial_file \in DOMAIN disk) =>
        \E k \in 0..Len(chunks) : disk[partial_file].body = SpacedSpeech(k)

\* The checkpoint that holds the texts returned for chunks 0..done-1 with the
\* marker done/N.
CheckpointOfChunks(done) ==
    [kind |-> "partial", done |-> done, total |-> Len(chunks),
     body |-> SpacedChunks(done)]

SubmissionFails ==
    /\ pc = "waiting"
    /\ calls'[Len(calls')].outcome \in {"http_error", "no_response"}

C5_SaveEveryTenthAndLast ==
    [][(pc = "waiting" /\ pc' = "loop") =>
          LET k == Len(transcriptions) + 1 IN
          (k % save_frequency = 0 \/ k = Len(chunks)) =>
              /\ Len(transcriptions') = k
              /\ partial_file \in DOMAIN disk'
              /\ disk'[partial_file] =
                     [kind |-> "partial", done |-> k, total |-> Len(chunks),
                      body |-> SpacedChunksOf(calls', k)]]_vars

\* Ten of eleven chunks are done and the checkpoint says 10/11.
C5_Witness ==
    /\ pc = "loop"
    /\ Len(chunks) = 11
    /\ Len(transcriptions) = 10
    /\ partial_file \in DOMAIN disk
    /\ disk[partial_file].done = 10

\* The chunks transcribed in this invocation that the checkpoint file does
\* not hold.
Unsaved ==
    Len(transcriptions)
        - (IF partial_file \in DOMAIN disk THEN disk[partial_file].done ELSE 0)

\* C6: wherever transcribe_chunks stands outside its exception handler, at
\* most save_frequency - 1 transcribed chunks are missing from the
\* checkpoint file.
C6_AtMostNineChunksUnsaved ==
    pc \in {"loop", "waiting", "return"} => Unsaved <= save_frequency - 1

\* The results of all the calls of the invocation were consumed.
AllChunksTranscribed ==
    /\ Len(calls) = Len(chunks)
    /\ Len(transcriptions) = Len(chunks)
    /\ \A k \in 1..Len(calls) :
          calls[k].outcome \in {"json_dict", "json_other", "not_json"}

\* C7: a checkpoint file disappears from the disk only in the step that
\* ends a transcribe_chunks invocation all of whose chunks were transcribed,
\* and it is this invocation's file; and when transcribe_chunks is about to
\* return, its checkpoint file does not exist.
C7_DeletedOnFullSuccessOnly ==
    [][/\ \A p \in DOMAIN disk :
             (disk[p].kind = "partial" /\ p \notin DOMAIN disk') =>
                 /\ pc = "loop"
                 /\ pc' = "return"
                 /\ p = partial_file
                 /\ AllChunksTranscribed
       /\ pc' = "return" => partial_file' \notin DOMAIN disk']_vars

\* Three chunks were transcribed and the checkpoint file is gone.
C7_Witness ==
    /\ pc = "return"
    /\ Len(chunks) = 3
    /\ AllChunksTranscribed
    /\ partial_file \notin DOMAIN disk

\* C8: a checkpoint file is overwritten or deleted only by the processing
\* of the video whose processing wrote it.
C8_CheckpointOfOneVideo ==
    [][\A p \in DOMAIN disk :
          (disk[p].kind = "partial" /\ (p \notin DOMAIN disk' \/ disk'[p] # disk[p]))
              => writer[p] = Video]_vars

\* C9: a response that is not JSON makes the call fail: it is the last call
\* of the invocation and the exception is on its way to the caller.
C9_MalformedResponseIsFailure ==
    \A k \in 1..Len(calls) :
        calls[k].outcome = "not_json" => (k = Len(calls) /\ pc = "raised")

\* The number of chunks of the invocation whose result had the language tag.
CallsWith(tag) == Cardinality({k \in 1..Len(calls) : calls[k].language = tag})

\* C10: the language transcribe_chunks returns is 'unknown' when every
\* chunk's language is 'unknown', and otherwise a tag other than 'unknown'
\* that no other such tag exceeds in number of chunks.
C10_MostFrequentLanguage ==
    pc = "return" =>
        IF \A k \in 1..Len(calls) : calls[k].language = "unknown"
        THEN returned.language = "unknown"
        ELSE /\ returned.language # "unknown"
             /\ \A tag \in Languages \ {"unknown"} :
                   CallsWith(tag) <= CallsWith(returned.language)

\* The chunks' languages were en, en, es and the result is en.
C10_Witness ==
    /\ pc = "return"
    /\ Len(calls) = 3
    /\ calls[1].language = "en"
    /\ calls[2].language = "en"
    /\ calls[3].language = "es"
    /\ returned.language = "en"

\* The position of the first chunk of the invocation whose language is tag.
FirstCall(tag) == CHOOSE k \in 1..Len(calls) :
    calls[k].language = tag /\ \A j \in 1..(k - 1) : calls[j].language # tag

\* The tags other than 'unknown' with the largest number of chunks.
TopTags ==
    {tag \in Languages \ {"unknown"} :
        /\ CallsWith(tag) > 0
        /\ \A other \in Languages \ {"unknown"} : CallsWith(other) <= CallsWith(tag)}

\* C11: when several tags share the largest number of chunks,
\* transcribe_chunks returns the one of them that a chunk had first.
C11_TieGoesToFirstEncountered ==
    (pc = "return" /\ TopTags # {}) =>
        /\ returned.language \in TopTags
        /\ \A tag \in TopTags : FirstCall(returned.language) <= FirstCall(tag)

\* The full transcription of the current video: what its audio says, chunk
\* after chunk when it is cut into chunks.
FullSpeech ==
    IF audio[Video].big THEN SpacedSpeech(audio[Video].n) ELSE WholeText(Video)

\* The final transcript paths of the videos.
TranscriptPaths == {TranscriptFile(v).path : v \in Videos}

\* C12: a final transcript file is created or changed only by the step that
\* ends the successful transcription of its video, and then it holds the
\* full transcription; in every other step, a failing one included, the
\* transcript files on disk stay as they are.
C12_TranscriptOnlyAfterFullSuccess ==
    [][\A p \in TranscriptPaths :
          IF p \in DOMAIN disk' /\ (p \notin DOMAIN disk \/ disk'[p] # disk[p])
          THEN /\ p = paths[Video].transcript_file.path
               /\ pc \in {"return", "whole"}
               /\ successful' = successful + 1
               /\ disk'[p].body = FullSpeech
          ELSE p \in DOMAIN disk => p \in DOMAIN disk']_vars

\* The user declined at the prompt: the default answer (an empty line), a
\* no, or Ctrl-C.
Declined == pc = "answered" /\ answer \in {"", "n", "no", " NO ", "^C"}

\* C13: for a video whose outputs the existence check finds: in force mode
\* the loop neither prompts nor skips, and unless the run is interrupted at
\* that moment it calls process_video; a prompt opens only without force
\* mode; and once the user has declined, the next step leaves every file
\* untouched, adds one to skipped, changes no other counter and goes on to
\* the next video.
C13_ForceReprocessesDeclineSkips ==
    [][/\ (OutputsExist /\ force_mode) =>
              /\ pc' \notin {"prompt", "answered"}
              /\ skipped' = skipped
              /\ \/ pc' \in {"loop", "whole"}
                 \/ failed' = failed + 1
                 \/ pc' = "aborted"
       /\ pc' = "prompt" => ~force_mode
       /\ Declined =>
              /\ disk' = disk
              /\ skipped' = skipped + 1
              /\ successful' = successful
              /\ failed' = failed
              /\ vi' = NextVideo(vi)
              /\ pc' = "main"]_vars

\* The first video of the list was skipped at the prompt and its transcript
\* is on disk.
C13_Witness ==
    /\ pc = "main"
    /\ ~force_mode
    /\ vi = 2
    /\ skipped = 1
    /\ successful = 0
    /\ failed = 0
    /\ paths[video_files[1]].transcript_file.path \in DOMAIN disk

\* C14: the two paths check_existing_transcriptions looks at are the paths
\* at which process_video writes the transcript and the subtitles of the
\* video, so that in the state a successful process_video leaves, the
\* transcript is among the files the check looks for.
C14_CheckedPathsAreWrittenPaths ==
    [][successful' = successful + 1 =>
          /\ paths[Video].expected.files =
                 <<paths[Video].transcript_file.path, paths[Video].subtitle_file.path>>
          /\ paths[Video].expected.files[1] \in DOMAIN disk']_vars

\* C15: when an exception raised by the processing of a video reaches main
\* (from transcribe_chunks, or from the single transcription call), then
\* unless the run is interrupted at that moment, failed grows by exactly
\* one, no other counter changes and the loop goes on with the next video
\* of the list; and the summary is reached only when the loop has visited
\* every video.
C15_FailureCountedBatchContinues ==
    [][/\ (pc = "raised" \/ (pc = "whole" /\ successful' = successful)) =>
              \/ pc' = "aborted"
              \/ /\ failed' = failed + 1
                 /\ successful' = successful
                 /\ skipped' = skipped
                 /\ vi' = vi + 1
                 /\ pc' = "main"
                 /\ video_files' = video_files
       /\ pc' = "exit" => vi' = Len(video_files) + 1]_vars

\* The first of two videos failed with an exception and the second one was
\* processed: its transcript is on disk, the first one's is not.
C15_Witness ==
    /\ pc = "exit"
    /\ Len(video_files) = 2
    /\ failed = 1
    /\ successful = 1
    /\ paths[video_files[1]].transcript_file.path \notin DOMAIN disk
    /\ paths[video_files[2]].transcript_file.path \in DOMAIN disk
    /\ paths[video_files[1]].audio_file.path \in DOMAIN disk

\* C16: the step in which an interrupt sets processing_interrupted leaves
\* the unit in flight where it is; with the flag set, an item being
\* processed still runs to its end, and at the loop boundary the loop stops
\* without starting another item.
C16_InFlightUnitCompletes ==
    [][/\ (~processing_interrupted /\ processing_interrupted') => npc' = npc
       /\ (processing_interrupted /\ npc = "processing") => npc' = "loop"
       /\ (processing_interrupted /\ npc = "loop") =>
              (npc' = "done" /\ started' = started)]_vars

\* A batch run has ended: the transcription batch or the note batch.
RunEnded == pc \in {"exit", "aborted"} \/ npc \in {"done", "exited"}

\* The run that ended printed its summary.
SummaryReported == pc = "exit" \/ (npc = "done" /\ reported # <<>>)

\* C17: a batch run over at least one item that has ended has reported its
\* summary.
C17_RunEndsWithSummary == RunEnded => SummaryReported

\* The components of an absolute, normalised path.
Components(path) == NormPath(<<>>, SplitPath(path, <<>>, <<>>))

\* The path is the directory `base` or lies below it, component by
\* component.
IsBaseOrBelow(base, path) ==
    /\ Len(Components(path)) >= Len(Components(base))
    /\ SubSeq(Components(path), 1, Len(Components(base))) = Components(base)

\* The place that base joined with the parts names, '..' and absolute parts
\* taken as the file system takes them, symbolic links aside.
NamedPlace ==
    abspath(os_path_join(abspath(call_args.base), call_args.parts))

\* C18: a call of secure_path_join that returns, returns an absolute path
\* that is the base directory or lies below it (a sibling whose name starts
\* with the name of the base does not), and this path is the place the
\* parts name, not another place inside the base: when the parts name a
\* place outside the base, the call raises.
C18_ReturnsOnlyPathsInsideBase ==
    (call_result.called /\ ~call_result.value.raised) =>
        /\ IsAbs(call_result.value.path)
        /\ IsBaseOrBelow(abspath(call_args.base), call_result.value.path)
        /\ call_result.value.path = NamedPlace

\* secure_path_join('transcripts', 'a/b') returned /w/transcripts/a/b.
C18_Witness ==
    /\ call_result.called
    /\ call_args.base = <<"t", "r", "a", "n", "s", "c", "r", "i", "p", "t", "s">>
    /\ call_args.parts = <<<<"a", "/", "b">>>>
    /\ ~call_result.value.raised
    /\ call_result.value.path = <<"/", "w", "/", "t", "r", "a", "n", "s", "c", "r", "i", "p", "t", "s", "/", "a", "/", "b">>

\* The symbolic links of the file system: transcripts/out points to /etc.
Symlinks ==
    [link \in {<<"/", "w", "/", "t", "r", "a", "n", "s", "c", "r", "i", "p", "t", "s", "/", "o", "u", "t">>} |-> <<"/", "e", "t", "c">>]

\* os.path.realpath for an absolute, normalised path: the path with the
\* symbolic links along it resolved.
RECURSIVE ResolveLinks(_, _)
ResolveLinks(done, rest) ==
    IF rest = <<>> THEN done
    ELSE IF JoinTwo(done, Head(rest)) \in DOMAIN Symlinks
         THEN ResolveLinks(Symlinks[JoinTwo(done, Head(rest))], Tail(rest))
         ELSE ResolveLinks(JoinTwo(done, Head(rest)), Tail(rest))

realpath(path) == ResolveLinks(<<Sep>>, Components(path))

\* C19: a call of secure_path_join that returns, returns a path that, with
\* the symbolic links along it resolved, is the base directory or lies
\* below it.
C19_RaisesOnSymlinkEscape ==
    (call_result.called /\ ~call_result.value.raised) =>
        IsBaseOrBelow(realpath(abspath(call_args.base)),
                      realpath(call_result.value.path))

\* The normal form of a sanitized name.
NormalForm(name) ==
    /\ name # <<>>
    /\ Len(name) <= name_limit
    /\ \A k \in 1..Len(name) : name[k] \in SafeChars
    /\ \A k \in 1..(Len(name) - 1) : ~(name[k] = "-" /\ name[k + 1] = "-")
    /\ name[1] # "-"
    /\ name[Len(name)] # "-"

\* C20: sanitize_filename raises for a name that contains '..', '/' or
\* '\', and for every other name returns a string in normal form.
C20_RaisesOrNormalForm ==
    call_result.called =>
        IF \/ Contains(call_args, <<".", ".">>)
           \/ Contains(call_args, <<"/">>)
           \/ Contains(call_args, <<"\\">>)
        THEN call_result.value.raised
        ELSE /\ ~call_result.value.raised
             /\ NormalForm(call_result.value.value)

\* The defects of a path component the rules name: it is empty, or it holds
\* '..', '/', '\', a NUL character or '~'.
Defective(component) ==
    \/ component = <<>>
    \/ \E k \in 1..Len(component) : component[k] \in {"/", "\\", "NUL", "~"}
    \/ \E k \in 1..(Len(component) - 1) : component[k] = "." /\ component[k+1] = "."

\* C21: validate_path_component raises for the empty component and for
\* every component that holds '..', '/', '\', NUL or '~', and returns True
\* only for a component with none of these defects.
C21_RejectsEmptyAndDangerous ==
    call_result.called =>
        (call_result.value = "ValueError" <=> Defective(call_args))


\* The chunks chunk_audio returned, their chunk length and the duration of
\* the source.
Cut == call_result.value.chunks

CutLength ==
    chunk_length_ms(call_args.total_duration, call_args.file_size, call_args.max_size)

RECURSIVE SumDurations(_)
SumDurations(list) ==
    IF list = <<>> THEN 0 ELSE Head(list).duration + SumDurations(Tail(list))

\* C22: the chunks of chunk_audio are the windows [0,L), [L,2L), ... of the
\* source of duration D: the k-th starts at (k-1)*L and has the number k-1,
\* every window but the last has length L, the last has length D mod L (L
\* when L divides D), every ms of [0,D) lies in exactly one window and the
\* durations sum to D.
C22_WindowsCoverSourceOnce ==
    (call_result.called /\ ~call_result.value.raised) =>
        /\ Cut # <<>>
        /\ \A k \in 1..Len(Cut) :
              /\ Cut[k].start = (k - 1) * CutLength
              /\ Cut[k].chunk_num = k - 1
              /\ Cut[k].duration =
                    IF k < Len(Cut) \/ call_args.total_duration % CutLength = 0
                    THEN CutLength
                    ELSE call_args.total_duration % CutLength
        /\ \A t \in 0..(call_args.total_duration - 1) :
              Cardinality({k \in 1..Len(Cut) :
                              /\ Cut[k].start <= t
                              /\ t < Cut[k].start + Cut[k].duration}) = 1
        /\ SumDurations(Cut) = call_args.total_duration

\* chunk_audio returned three chunks or more, the last one shorter than the
\* others.
C22_Witness ==
    /\ call_result.called
    /\ ~call_result.value.raised
    /\ Len(Cut) >= 3
    /\ call_args.total_duration % CutLength # 0


\* The chunk files of a video that are on the disk given.
ChunksOnDisk(files, video) ==
    {k \in 1..MostChunks : paths[video].chunk_files[k].path \in DOMAIN files}

\* C23: the step in which process_video succeeds for a video leaves no
\* chunk file of the video on the disk; the step in which the transcription
\* of a chunk fails, and the step in which main counts the failure, leave
\* every chunk file created for the attempt in place.
C23_ChunksPurgedOnSuccessKeptOnFailure ==
    [][/\ successful' = successful + 1 =>
             /\ ChunksOnDisk(disk', Video) = {}
             /\ \A p \in DOMAIN disk' :
                   disk'[p].kind = "chunk" => writer'[p] # Video
       /\ (pc \in {"waiting", "raised"} /\ pc' \in {"raised", "main"}) =>
             /\ ChunksOnDisk(disk', Video) = 1..Len(chunks)
             /\ \A k \in 1..Len(chunks) :
                   /\ disk'[paths[Video].chunk_files[k].path].kind = "chunk"
                   /\ disk'[paths[Video].chunk_files[k].path].chunk_num = k - 1]_vars

\* Two videos were cut into chunks; the first failed at a chunk and its
\* chunk files are on the disk, the second succeeded.
C23_Witness ==
    /\ pc = "main"
    /\ vi = 3
    /\ failed = 1
    /\ successful = 1
    /\ audio[video_files[1]].big
    /\ audio[video_files[2]].big
    /\ ChunksOnDisk(disk, video_files[1]) # {}
    /\ ChunksOnDisk(disk, video_files[2]) = {}


\* C24: every step that ends a call of index_transcript on a file that is
\* missing or cannot be read returns 0, every step that ends a call of
\* search on a collection name that does not exist returns the empty list;
\* neither call raises and neither changes the collections.
C24_StoreErrorsAreValues ==
    [][/\ \A file_path \in DOMAIN StoreFiles :
             (/\ StoreFiles[file_path].error # "none"
              /\ store_result'.op = "index_transcript"
              /\ store_result'.arg = file_path) =>
                 /\ ~store_result'.raised
                 /\ store_result'.value = 0
                 /\ collections' = collections
       /\ \A collection \in CollectionNames :
             (/\ collection \notin DOMAIN collections
              /\ store_result'.op = "search"
              /\ store_result'.arg = collection) =>
                 /\ ~store_result'.raised
                 /\ store_result'.value = <<>>
                 /\ collections' = collections]_vars

\* The store is connected and holds documents; the last call was
\* index_transcript on the missing file.
C24_Witness ==
    /\ store_result.called
    /\ store_result.op = "index_transcript"
    /\ store_result.arg = "t/missing.md"
    /\ "transcripts" \in DOMAIN collections
    /\ collections["transcripts"] # {}


\* The transcripts of the list that were neither started nor skipped.
NeverStarted ==
    Len(transcript_files) - Cardinality(started) - skipped_notes

\* C25: once an interrupted run of batch_process_transcripts has ended, it
\* has reported an interrupted remainder, and the remainder is the number
\* of transcripts that were never started: a transcript that was started
\* and failed is not part of it.
C25_RemainderIsNeverStarted ==
    (processing_interrupted /\ npc \in {"done", "exited"}) =>
        /\ reported # <<>>
        /\ reported[1].interrupted
        /\ reported[1].remaining = NeverStarted


\* The checkpoint files of the disk given, with their contents.
Checkpoints(files) ==
    {<<p, files[p]>> : p \in {q \in DOMAIN files : files[q].kind = "partial"}}

\* C26: process_video starts the chunked transcription only for an audio
\* file larger than 25 MB, whatever the number of chunks the chunk size
\* gives; for a file of 25 MB or less it makes one call with the whole
\* file and no more, and no checkpoint file is created, written or deleted
\* from the call of process_video to its end.
C26_ChunkingOnlyAboveLimit ==
    [][/\ (pc \in {"main", "answered"} /\ pc' = "loop") =>
             audio[Video].size > SizeLimit
       /\ (pc \in {"main", "answered"} /\ pc' = "whole") =>
             /\ audio[Video].size <= SizeLimit
             /\ Checkpoints(disk') = Checkpoints(disk)
       /\ pc = "whole" =>
             /\ audio[Video].size <= SizeLimit
             /\ Len(calls) = 1
             /\ calls[1].chunk = WholeFile
             /\ pc' \in {"whole", "main", "aborted"}
             /\ Checkpoints(disk') = Checkpoints(disk)]_vars

\* The whole-file call is pending for an audio file of exactly 25 MB while
\* a checkpoint file is on the disk.
C26_Witness ==
    /\ pc = "whole"
    /\ audio[Video].size = SizeLimit
    /\ Checkpoints(disk) # {}


\* C27: at every boundary of main's loop the counters successful, failed
\* and skipped sum to the number of videos visited so far, and when the
\* summary is printed they sum to the number of discovered videos: every
\* video is counted once, in one counter.
C27_CountersSumToVisited ==
    /\ pc = "main" => successful + failed + skipped = vi - 1
    /\ pc = "exit" => successful + failed + skipped = Len(video_files)

\* A batch over two videos has printed its summary, with one video skipped
\* and one failed.
C27_Witness ==
    /\ pc = "exit"
    /\ Len(video_files) = 2
    /\ skipped = 1
    /\ failed = 1


\* C28: no two videos of the discovered list have the same final
\* transcript path, and no step of the batch replaces a transcript on the
\* disk by the transcript of another video.
C28_TranscriptPathsDistinct ==
    [][/\ \A j, k \in 1..Len(video_files) :
             j # k => paths[video_files[j]].transcript_file.path
                         # paths[video_files[k]].transcript_file.path
       /\ \A p \in DOMAIN disk :
             (/\ disk[p].kind = "transcript"
              /\ p \in DOMAIN disk') => disk'[p].source = disk[p].source]_vars


\* C29: a step of enhance_notes_in_directory changes the content of a note
\* file only when it is the note of the iteration and
\* enhance_note_with_context returned status success for it; after a
\* result that is no success the note is as it was; with backup, while and
\* after the enhancement of a note is attempted its backup file holds the
\* content the note had before; and on return enhanced + failed is
\* total_files.
C29_OverwriteOnlyOnSuccess ==
    [][/\ \A k \in DOMAIN note_disk :
             note_disk'[k].content # note_disk[k].content =>
                 /\ epc = "returned"
                 /\ k = NoteFile
                 /\ enhancement_result.status = "success"
       /\ (epc = "returned" /\ enhancement_result.status # "success") =>
             /\ note_disk' = note_disk
             /\ note_disk[NoteFile].content = OriginalNote(NoteFile)
       /\ (backup /\ epc \in {"enhancing", "returned"}) =>
             note_disk[NoteFile].backup = <<OriginalNote(NoteFile)>>
       /\ \A k \in DOMAIN note_disk :
             (backup /\ results.files[k] = "enhanced") =>
                 note_disk[k].backup = <<OriginalNote(k)>>
       /\ epc' = "done" =>
             results'.enhanced + results'.failed = Len(note_files)]_vars

\* A run with backup has returned; one note was enhanced and its backup
\* holds the original, one enhancement failed and its note is unchanged.
C29_Witness ==
    /\ epc = "done"
    /\ backup
    /\ \E j, k \in DOMAIN note_disk :
          /\ results.files[j] = "enhanced"
          /\ note_disk[j].content = EnhancedNote(j)
          /\ note_disk[j].backup = <<OriginalNote(j)>>
          /\ results.files[k] = "failed"
          /\ note_disk[k].content = OriginalNote(k)
          /\ note_disk[k].backup = <<OriginalNote(k)>>


\* The commands of `ran` that ended with return code 0.
SucceededSteps == SelectSeq(ran, LAMBDA r : ~r.raised /\ r.returncode = 0)

\* C30: run_complete_pipeline runs the steps of its list in the listed
\* order, each at most once; no step is run after one that did not succeed;
\* steps_completed is the list of the descriptions of the steps that
\* succeeded, which is a prefix of the list of steps; and the process exits
\* with code 0 exactly when all the steps were run and succeeded.
C30_StepsInOrderStopAtFailure ==
    mode = "complete" =>
        /\ Len(ran) <= Len(CompleteSteps)
        /\ \A j \in 1..Len(ran) : ran[j].description = CompleteSteps[j]
        /\ \A j \in 1..Len(ran) - 1 : ~ran[j].raised /\ ran[j].returncode = 0
        /\ steps_completed =
              [j \in 1..Len(SucceededSteps) |-> SucceededSteps[j].description]
        /\ steps_completed = SubSeq(CompleteSteps, 1, Len(steps_completed))
        /\ ppc = "exited" =>
              (exit_code = 0 <=> /\ Len(SucceededSteps) = Len(CompleteSteps)
                                 /\ Len(ran) = Len(CompleteSteps))

\* The complete pipeline has exited with code 1: its third step ended with
\* a return code other than 0 after two steps that succeeded, and no other
\* step was run.
C30_Witness ==
    /\ mode = "complete"
    /\ ppc = "exited"
    /\ exit_code = 1
    /\ Len(ran) = 3
    /\ ran[3].returncode = 2
    /\ steps_completed = SubSeq(CompleteSteps, 1, 2)


====
